---- MODULE Spec2Model ----
(***************************************************************************)
(* Account flows of the epic-stack routes: the verification hand-off       *)
(* cookie, onboarding, reset-password, login, password create/change,      *)
(* profile photo and theme switch.  One browser (its cookie jar) talks to  *)
(* the route handlers; the database is a record of tables.  Every handler  *)
(* is a pure operator from (database, cookie jar, clock, request) to       *)
(* (database, response); the action of the handler applies it and lets the *)
(* browser apply the response's set-cookie headers.  req and resp hold the  *)
(* last request and its response.  pending holds the signups that have     *)
(* passed validation and whose write has not happened yet.  formState is   *)
(* the status kept by useForm and the updates it has been given.           *)
(***************************************************************************)
EXTENDS Integers, FiniteSets, Sequences, TLC

VARIABLES db, jar, now, req, resp, pending, formState

vars == <<db, jar, now, req, resp, pending, formState>>

----------------------------------------------------------------------------
(* Bounds of the model *)

MaxSessions == 1

MaxRecords == 1

MaxTime == 1

MaxPending == 2

MaxUpdates == 3

----------------------------------------------------------------------------
(* Values *)

\* JavaScript's undefined: an absent form field, an absent session key
Undefined == "<undefined>"

\* an auth cookie without Expires / Max-Age lives as long as the browser session
NoExpiry == -1

\* no session id in the auth cookie
NoSessionId == 0

Passwords == {"", "pw1", "pw2"}

Usernames == {"", "alice", "carol"}

\* the redirectTo values that are paths of the site itself
SameSitePaths == {"/", "/notes"}

RedirectTos == {Undefined, "/notes", "https://evil.example"}

Remembers == {Undefined, "on"}

----------------------------------------------------------------------------
(* Cookies *)

EmptyVerifySession ==
  [onboardingEmail |-> Undefined, providerId |-> Undefined,
   prefilledProfile |-> Undefined, resetPasswordUsername |-> Undefined]

NoAuthCookie == [sessionId |-> NoSessionId, expires |-> NoExpiry]

\* a browser without cookies
NoJar == [auth |-> NoAuthCookie, verify |-> EmptyVerifySession, theme |-> Undefined]

NoSetCookie == [auth |-> {}, verify |-> {}, theme |-> {}, toast |-> {}]

\* the browser stores the value of every set-cookie header of a response (the
\* toast cookie is a flash message, consumed by the next page and not kept here)
ApplySetCookie(j, sc) ==
  [auth   |-> IF sc.auth = {} THEN j.auth ELSE CHOOSE v \in sc.auth : TRUE,
   verify |-> IF sc.verify = {} THEN j.verify ELSE CHOOSE v \in sc.verify : TRUE,
   theme  |-> IF sc.theme = {} THEN j.theme ELSE CHOOSE v \in sc.theme : TRUE]

\* the set-cookie header carries the session as it was
DestroySessionKeepsData(session) == session

\* verifySessionStorage.destroySession: the cookie is cleared
DestroySession(session) == EmptyVerifySession

\* commitSession: the cookie carries the session's data
CommitSession(session) == session

----------------------------------------------------------------------------
(* Responses *)

NoBody == [shape |-> "none", fieldErrors |-> {}, formErrors |-> {}, echo |-> {}]

Response(handler, exit, status, location, body, setCookie) ==
  [handler |-> handler, exit |-> exit, status |-> status,
   location |-> location, body |-> body, setCookie |-> setCookie]

Redirect(handler, exit, location, setCookie) ==
  Response(handler, exit, 302, location, NoBody, setCookie)

\* a loader's return value
LoaderData(handler, data) ==
  Response(handler, "ok", 200, Undefined,
           [shape |-> "loader", fieldErrors |-> {}, formErrors |-> {}, echo |-> data],
           NoSetCookie)

\* the error is swallowed and the request is left without an answer
ThrownUnanswered(handler) ==
  Response(handler, "none", 0, Undefined, NoBody, NoSetCookie)

\* an error that is no Response escapes the handler: the framework answers 500
Thrown(handler) ==
  Response(handler, "thrown", 500, Undefined, NoBody, NoSetCookie)

\* conform's report(submission, { error, hideFields }): the payload is echoed
\* except the hidden fields; absent fields have no entry
Report(payload, fieldErrors, formErrors, hideFields) ==
  [shape |-> "result", fieldErrors |-> fieldErrors, formErrors |-> formErrors,
   echo |-> {<<f, payload[f]>> : f \in
              {g \in (DOMAIN payload) \ hideFields : payload[g] # Undefined}}]

\* data({ result: report(...) }) without its status
InvalidWithoutStatus(handler, payload, fieldErrors, formErrors, hideFields) ==
  Response(handler, "invalid", 200, Undefined,
           Report(payload, fieldErrors, formErrors, hideFields), NoSetCookie)

\* data({ result: report(...) }, { status: 400 })
Invalid(handler, payload, fieldErrors, formErrors, hideFields) ==
  Response(handler, "invalid", 400, Undefined,
           Report(payload, fieldErrors, formErrors, hideFields), NoSetCookie)

\* coerceZodFormData: an empty string is no value
Coerce(v) == IF v = "" THEN Undefined ELSE v

Result(d, r) == [db |-> d, resp |-> r]

----------------------------------------------------------------------------
(* Database *)

Hash(password) == <<"bcrypt", password>>

InitDb ==
  [users |-> {[id |-> 1, username |-> "alice", email |-> "alice@x"]},
   passwords |-> {[userId |-> 1, hash |-> Hash("pw1")]},
   images |-> {},
   sessions |-> {},
   verifications |-> {}]

Max(S) == CHOOSE x \in S : \A y \in S : y <= x

FreshId(S) == IF S = {} THEN 1 ELSE Max(S) + 1

\* getUserId: the user of the session the auth cookie names, if it is not expired
GetUserId(d, j, t) ==
  LET live == {s \in d.sessions : s.id = j.auth.sessionId /\ s.expirationDate > t}
  IN IF live = {} THEN 0 ELSE (CHOOSE s \in live : TRUE).userId

\* requireUserId: the logged-in user, or a redirect to /login
RequireUserId(d, j, t) == GetUserId(d, j, t)

\* requireAnonymous: a logged-in actor is redirected to /
RequireAnonymous(d, j, t) == GetUserId(d, j, t) = 0

----------------------------------------------------------------------------
(* settings/profile/photo *)

MAX_SIZE == 1024 * 1024 * 3

NoFile == [present |-> FALSE, size |-> 0]

File(size) == [present |-> TRUE, size |-> size]

PhotoFiles == {NoFile} \cup {File(s) : s \in {0, 1, MAX_SIZE, MAX_SIZE + 1}}

PhotoIntents == {Undefined, "delete", "submit"}

\* parseFormData(request, { maxFileSize: MAX_SIZE }, ...): a file part larger
\* than maxFileSize makes the parser throw before any schema is consulted
ParseFormDataThrows(file) == file.present /\ file.size > MAX_SIZE

\* PhotoFormSchema: the errors of a submission
PhotoFormSchema(intent, file) ==
  IF intent = "delete" THEN {}
  ELSE IF intent = "submit" THEN
    IF ~file.present THEN {<<"photoFile", "Input not instance of File">>}
    ELSE (IF file.size > 0 THEN {} ELSE {<<"photoFile", "Image is required">>})
      \cup (IF file.size <= MAX_SIZE THEN {}
            ELSE {<<"photoFile", "Image size must be less than 3MB">>})
  ELSE {<<"intent", "Invalid discriminator value">>}

\* deleteMany without its where clause
DeleteManyImagesOfEveryone(d, userId) == [d EXCEPT !.images = {}]

\* prisma.userImage.deleteMany({ where: { userId } })
DeleteManyImages(d, userId) ==
  [d EXCEPT !.images = {i \in d.images : i.userId # userId}]

\* prisma.user.update({ where: { id }, data: { image: { create: image } } })
CreateImage(d, userId, blob) ==
  [d EXCEPT !.images = d.images \cup {[userId |-> userId, blob |-> blob]}]

\* a transaction without rollback: what the failed statement's predecessors wrote stays
TransactionNoRollback(before, after, failAt) ==
  IF failAt = 0 THEN [db |-> after[Len(after)], committed |-> TRUE]
  ELSE [db |-> IF failAt = 1 THEN before ELSE after[failAt - 1],
        committed |-> FALSE]

\* prisma.$transaction(async ($prisma) => ...): after[k] is the database after
\* the k-th statement; failAt is the statement that throws (0: none).  A throw
\* rolls every statement back.
Transaction(before, after, failAt) ==
  IF failAt = 0 THEN [db |-> after[Len(after)], committed |-> TRUE]
  ELSE [db |-> before, committed |-> FALSE]

PhotoAction(d, j, t, intent, file, failAt) ==
  LET userId == RequireUserId(d, j, t)
      payload == [intent |-> intent]
      errors == PhotoFormSchema(intent, file)
  IN IF userId = 0 THEN Result(d, Redirect("photo", "guard", "/login", NoSetCookie))
     ELSE IF ParseFormDataThrows(file) THEN Result(d, Thrown("photo"))
     ELSE IF errors # {} THEN Result(d, Invalid("photo", payload, errors, {}, {}))
     ELSE IF intent = "delete" THEN
       Result(DeleteManyImages(d, userId),
              Redirect("photo", "ok", "/settings/profile", NoSetCookie))
     ELSE
       LET d1 == DeleteManyImages(d, userId)
           d2 == CreateImage(d1, userId, file.size)
           tx == Transaction(d, <<d1, d2>>, failAt)
       IN IF tx.committed
          THEN Result(tx.db, Redirect("photo", "ok", "/settings/profile", NoSetCookie))
          ELSE Result(tx.db, Thrown("photo"))

----------------------------------------------------------------------------
(* user-validation *)

\* PasswordSchema / UsernameSchema / NameSchema on a coerced value: required
Required(field, v) ==
  IF Coerce(v) = Undefined THEN {<<field, "Required">>} ELSE {}

\* PasswordAndConfirmPasswordSchema: both required, and they must match
PasswordAndConfirmPasswordSchema(password, confirmPassword) ==
  Required("password", password) \cup Required("confirmPassword", confirmPassword)
  \cup (IF Coerce(password) # Undefined /\ Coerce(confirmPassword) # Undefined
           /\ password # confirmPassword
        THEN {<<"confirmPassword", "The passwords must match">>} ELSE {})

----------------------------------------------------------------------------
(* auth.server *)

SESSION_EXPIRATION_TIME == 2

PasswordOf(d, userId) == {p \in d.passwords : p.userId = userId}

\* verifyUserPassword: the user whose stored hash the password verifies against
VerifyUserPassword(d, userId, password) ==
  \E p \in PasswordOf(d, userId) : p.hash = Hash(password)

NewSession(d, t, userId) ==
  [id |-> FreshId({s.id : s \in d.sessions}), userId |-> userId,
   expirationDate |-> t + SESSION_EXPIRATION_TIME]

\* safeRedirect(redirectTo)
SafeRedirect(to) == IF to \in SameSitePaths THEN to ELSE "/"

\* the cookie carries the persisted expiry whether or not 'remember' was checked
AuthCookieAlwaysExpires(session, remember) ==
  [sessionId |-> session.id, expires |-> session.expirationDate]

\* authSession.set(sessionKey, session.id) and authSessionStorage.commitSession(
\* authSession, { expires: remember ? session.expirationDate : undefined })
CommitAuthSession(session, remember) ==
  [sessionId |-> session.id,
   expires |-> IF remember = "on" THEN session.expirationDate ELSE NoExpiry]

----------------------------------------------------------------------------
(* login *)

\* the loader of /login
LoginLoader(d, j, t) ==
  IF ~RequireAnonymous(d, j, t)
  THEN Result(d, Redirect("loginLoader", "guard", "/", NoSetCookie))
  ELSE Result(d, Response("loginLoader", "ok", 200, Undefined,
                          [shape |-> "loader", fieldErrors |-> {}, formErrors |-> {},
                           echo |-> {}],
                          NoSetCookie))

\* the error is put on the username field
LoginFailureOnField(payload) ==
  Invalid("login", payload, {<<"username", "Invalid username or password">>}, {},
          {"password"})

\* login() returned null: the issue added in the transform has no path
LoginFailure(payload) ==
  Invalid("login", payload, {}, {"Invalid username or password"}, {"password"})

LoginAction(d, j, t, username, password, remember, redirectTo) ==
  LET payload == [username |-> username, password |-> password,
                  remember |-> remember, redirectTo |-> redirectTo]
      errors == Required("username", username) \cup Required("password", password)
      found == {u \in d.users : u.username = username
                                /\ VerifyUserPassword(d, u.id, password)}
  IN IF ~RequireAnonymous(d, j, t)
     THEN Result(d, Redirect("login", "guard", "/", NoSetCookie))
     ELSE IF errors # {}
     THEN Result(d, Invalid("login", payload, errors, {}, {"password"}))
     ELSE IF found = {}
     THEN Result(d, LoginFailure(payload))
     ELSE
       LET session == NewSession(d, t, (CHOOSE u \in found : TRUE).id)
       IN Result([d EXCEPT !.sessions = d.sessions \cup {session}],
                 Redirect("login", "ok", SafeRedirect(redirectTo),
                          [NoSetCookie EXCEPT
                             !.auth = {CommitAuthSession(session, remember)}]))

\* logout: the session record is deleted and the auth cookie cleared
LogoutAction(d, j, t) ==
  Result([d EXCEPT !.sessions = {s \in d.sessions : s.id # j.auth.sessionId}],
         Redirect("logout", "ok", "/",
                  [NoSetCookie EXCEPT !.auth = {NoAuthCookie}]))

----------------------------------------------------------------------------
(* settings/profile/password/create and settings/profile/password *)

SubmissionTypes == {"submit", "validate"}

PasswordHidden == {"password", "confirmPassword"}

ChangePasswordHidden == {"currentPassword", "newPassword", "confirmNewPassword"}

\* the guard lets every request through
RequireNoPasswordSkipped(d, userId) == TRUE

\* requireNoPassword: TRUE when the request may proceed
RequireNoPassword(d, userId) == PasswordOf(d, userId) = {}

\* requirePassword: TRUE when the request may proceed
RequirePassword(d, userId) == PasswordOf(d, userId) # {}

\* the database accepts a second password record of a user
CreatePasswordNeverThrows(d, userId) == FALSE

\* Password.userId is unique: a nested create for a user who has a password is
\* rejected by the database
CreatePasswordThrows(d, userId) == PasswordOf(d, userId) # {}

\* prisma.user.update({ data: { password: { create: { hash } } } })
CreatePassword(d, userId, hash) ==
  [d EXCEPT !.passwords = d.passwords \cup {[userId |-> userId, hash |-> hash]}]

\* prisma.user.update({ data: { password: { update: { hash } } } })
UpdatePassword(d, userId, hash) ==
  [d EXCEPT !.passwords =
     {IF p.userId = userId THEN [p EXCEPT !.hash = hash] ELSE p : p \in d.passwords}]

\* the write that ends both create-password actions, and its response
CreatePasswordWrite(handler, d, userId, password) ==
  IF CreatePasswordThrows(d, userId)
  THEN Result(d, Thrown(handler))
  ELSE Result(CreatePassword(d, userId, Hash(password)),
              Redirect(handler, "ok", "/settings/profile", NoSetCookie))

CreatePasswordLoader(d, j, t) ==
  LET userId == RequireUserId(d, j, t)
  IN IF userId = 0
     THEN Result(d, Redirect("createPasswordLoader", "guard", "/login", NoSetCookie))
     ELSE IF ~RequireNoPassword(d, userId)
     THEN Result(d, Redirect("createPasswordLoader", "guard",
                             "/settings/profile/password", NoSetCookie))
     ELSE Result(d, LoaderData("createPasswordLoader", {}))

CreatePasswordAction(d, j, t, password, confirmPassword) ==
  LET userId == RequireUserId(d, j, t)
      payload == [password |-> password, confirmPassword |-> confirmPassword]
      errors == PasswordAndConfirmPasswordSchema(password, confirmPassword)
  IN IF userId = 0
     THEN Result(d, Redirect("createPassword", "guard", "/login", NoSetCookie))
     ELSE IF ~RequireNoPassword(d, userId)
     THEN Result(d, Redirect("createPassword", "guard",
                             "/settings/profile/password", NoSetCookie))
     ELSE IF errors # {}
     THEN Result(d, Invalid("createPassword", payload, errors, {}, PasswordHidden))
     ELSE CreatePasswordWrite("createPassword", d, userId, password)

LegacyCreatePasswordLoader(d, j, t) ==
  LET userId == RequireUserId(d, j, t)
  IN IF userId = 0
     THEN Result(d, Redirect("legacyCreatePasswordLoader", "guard", "/login",
                             NoSetCookie))
     ELSE IF ~RequireNoPassword(d, userId)
     THEN Result(d, Redirect("legacyCreatePasswordLoader", "guard",
                             "/settings/profile/password", NoSetCookie))
     ELSE Result(d, LoaderData("legacyCreatePasswordLoader", {}))

\* the earlier version of the create-password route: the rejected submission is
\* the body itself, and only a 'submit' submission is answered with 400
LegacyCreatePasswordAction(d, j, t, type, password, confirmPassword) ==
  LET userId == RequireUserId(d, j, t)
      payload == [password |-> password, confirmPassword |-> confirmPassword]
      errors == PasswordAndConfirmPasswordSchema(password, confirmPassword)
      hasValue == type = "submit" /\ errors = {}
  IN IF userId = 0
     THEN Result(d, Redirect("legacyCreatePassword", "guard", "/login", NoSetCookie))
     ELSE IF ~RequireNoPassword(d, userId)
     THEN Result(d, Redirect("legacyCreatePassword", "guard",
                             "/settings/profile/password", NoSetCookie))
     ELSE IF ~hasValue
     THEN Result(d, Response("legacyCreatePassword",
                             IF errors # {} THEN "invalid" ELSE "validated",
                             IF type = "submit" THEN 400 ELSE 200, Undefined,
                             [Report(payload, errors, {}, PasswordHidden)
                                EXCEPT !.shape = "bare"],
                             NoSetCookie))
     ELSE CreatePasswordWrite("legacyCreatePassword", d, userId, password)

\* the current password is not verified
ChangePasswordUnverified(d, userId, currentPassword, newPassword, confirmNewPassword) ==
  Required("currentPassword", currentPassword)
  \cup Required("newPassword", newPassword)
  \cup Required("confirmNewPassword", confirmNewPassword)
  \cup (IF Coerce(newPassword) # Undefined /\ Coerce(confirmNewPassword) # Undefined
           /\ confirmNewPassword # newPassword
        THEN {<<"confirmNewPassword", "The passwords must match">>} ELSE {})

\* ChangePasswordForm with the action's async superRefine: the refinements run
\* only when the object itself parsed (every field present)
ChangePasswordErrors(d, userId, currentPassword, newPassword, confirmNewPassword) ==
  LET required == Required("currentPassword", currentPassword)
                  \cup Required("newPassword", newPassword)
                  \cup Required("confirmNewPassword", confirmNewPassword)
  IN IF required # {} THEN required
     ELSE (IF confirmNewPassword # newPassword
           THEN {<<"confirmNewPassword", "The passwords must match">>} ELSE {})
          \cup
          (IF Coerce(currentPassword) # Undefined /\ Coerce(newPassword) # Undefined
              /\ ~VerifyUserPassword(d, userId, currentPassword)
           THEN {<<"currentPassword", "Incorrect password.">>} ELSE {})

ChangePasswordLoader(d, j, t) ==
  LET userId == RequireUserId(d, j, t)
  IN IF userId = 0
     THEN Result(d, Redirect("changePasswordLoader", "guard", "/login", NoSetCookie))
     ELSE IF ~RequirePassword(d, userId)
     THEN Result(d, Redirect("changePasswordLoader", "guard",
                             "/settings/profile/password/create", NoSetCookie))
     ELSE Result(d, LoaderData("changePasswordLoader", {}))

ChangePasswordAction(d, j, t, currentPassword, newPassword, confirmNewPassword) ==
  LET userId == RequireUserId(d, j, t)
      payload == [currentPassword |-> currentPassword, newPassword |-> newPassword,
                  confirmNewPassword |-> confirmNewPassword]
      errors == ChangePasswordErrors(d, userId, currentPassword, newPassword,
                                     confirmNewPassword)
  IN IF userId = 0
     THEN Result(d, Redirect("changePassword", "guard", "/login", NoSetCookie))
     ELSE IF ~RequirePassword(d, userId)
     THEN Result(d, Redirect("changePassword", "guard",
                             "/settings/profile/password/create", NoSetCookie))
     ELSE IF errors # {}
     THEN Result(d, Invalid("changePassword", payload, errors, {},
                            ChangePasswordHidden))
     ELSE Result(UpdatePassword(d, userId, Hash(newPassword)),
                 Redirect("changePassword", "ok", "/settings/profile",
                          [NoSetCookie EXCEPT !.toast = {"Password Changed"}]))

----------------------------------------------------------------------------
(* verify: the one-time code verifier *)

VerificationTypes == {"onboarding", "reset-password", "2fa"}

\* the types whose record survives a successful verification
PersistentTypes == {"2fa"}

VerificationTargets ==
  [type \in VerificationTypes |->
     IF type = "onboarding" THEN {"carol@x"}
     ELSE IF type = "2fa" THEN {"user-1"}
     ELSE {"alice", "alice@x", "ghost"}]

IssuedCodes == {"111111", "222222"}

SubmittedCodes == IssuedCodes \cup {"000000"}

VERIFICATION_PERIOD == 1

\* expiresAt: null of a long-lived record
NullExpiresAt == -1

RecordOf(d, type, target) ==
  {v \in d.verifications : v.type = type /\ v.target = target}

\* the record of a newly requested code
NewRecord(t, type, target, code) ==
  [type |-> type, target |-> target, code |-> code,
   expiresAt |-> IF type \in PersistentTypes THEN NullExpiresAt
                 ELSE t + VERIFICATION_PERIOD]

\* the new record is added next to the one the pair already has
PrepareVerificationInsert(d, t, type, target, code) ==
  [d EXCEPT !.verifications =
     d.verifications \cup {NewRecord(t, type, target, code)}]

\* prepareVerification: upsert of the record of (type, target)
PrepareVerification(d, t, type, target, code) ==
  [d EXCEPT !.verifications =
     (d.verifications \ RecordOf(d, type, target))
     \cup {NewRecord(t, type, target, code)}]

\* the expiry of the record is not looked at
IsCodeValidIgnoresExpiry(d, t, type, target, code) ==
  \E v \in RecordOf(d, type, target) : v.code = code

\* isCodeValid: fails closed when no record exists or it is expired
IsCodeValid(d, t, type, target, code) ==
  \E v \in RecordOf(d, type, target) :
    /\ v.expiresAt = NullExpiresAt \/ v.expiresAt > t
    /\ v.code = code

MatchedUsers(d, target) ==
  {u \in d.users : u.email = target \/ u.username = target}

\* the 400 report of an unknown target
InvalidCode(payload, exit) ==
  [Invalid("verify", payload, {<<"code", "Invalid code">>}, {}, {})
     EXCEPT !.exit = exit]

\* the verified target itself is stored, whether a username or an email
HandleVerificationStoresTarget(d, payload) ==
  IF MatchedUsers(d, payload.target) = {}
  THEN InvalidCode(payload, "notFound")
  ELSE Redirect("verify", "ok", "/reset-password",
                [NoSetCookie EXCEPT !.verify =
                   {CommitSession([EmptyVerifySession EXCEPT
                                     !.resetPasswordUsername = payload.target])}])

\* an unknown target is reported as such
HandleVerificationTellsNotFound(d, payload) ==
  IF MatchedUsers(d, payload.target) = {}
  THEN [Invalid("verify", payload, {<<"target", "No user exists with this target">>},
                {}, {}) EXCEPT !.exit = "notFound"]
  ELSE Redirect("verify", "ok", "/reset-password",
                [NoSetCookie EXCEPT !.verify =
                   {CommitSession([EmptyVerifySession EXCEPT
                      !.resetPasswordUsername =
                         (CHOOSE u \in MatchedUsers(d, payload.target) : TRUE).username])}])

\* reset-password's handleVerification
ResetPasswordHandleVerification(d, payload) ==
  LET found == MatchedUsers(d, payload.target)
  IN IF found = {}
     THEN InvalidCode(payload, "notFound")
     ELSE LET user == CHOOSE u \in found : TRUE
              verifySession == [EmptyVerifySession EXCEPT
                                  !.resetPasswordUsername = user.username]
          IN Redirect("verify", "ok", "/reset-password",
                      [NoSetCookie EXCEPT !.verify = {CommitSession(verifySession)}])

\* the session also carries the target under the key of the other flow
OnboardingHandleVerificationTwoKeys(d, payload) ==
  LET verifySession == [EmptyVerifySession EXCEPT
                          !.onboardingEmail = payload.target,
                          !.resetPasswordUsername = payload.target]
  IN Redirect("verify", "ok", "/onboarding",
              [NoSetCookie EXCEPT !.verify = {CommitSession(verifySession)}])

\* onboarding's handleVerification
OnboardingHandleVerification(d, payload) ==
  LET verifySession == [EmptyVerifySession EXCEPT !.onboardingEmail = payload.target]
  IN Redirect("verify", "ok", "/onboarding",
              [NoSetCookie EXCEPT !.verify = {CommitSession(verifySession)}])

\* the completion handler of a persistent type: the actor is sent on
PersistentHandleVerification(d, payload) ==
  Redirect("verify", "ok", "/", NoSetCookie)

\* the completion handler of the type
HandleVerification(d, payload) ==
  IF payload.type = "reset-password" THEN ResetPasswordHandleVerification(d, payload)
  ELSE IF payload.type = "onboarding" THEN OnboardingHandleVerification(d, payload)
  ELSE PersistentHandleVerification(d, payload)

\* a refused attempt deletes the record of the pair
VerifyActionBurnsRecord(d, j, t, type, target, code) ==
  LET payload == [type |-> type, target |-> target, code |-> code]
      consumed == [d EXCEPT !.verifications =
                     d.verifications \ RecordOf(d, type, target)]
  IN IF ~IsCodeValid(d, t, type, target, code)
     THEN Result(consumed, InvalidCode(payload, "invalid"))
     ELSE Result(IF type \in PersistentTypes THEN d ELSE consumed,
                 HandleVerification(consumed, payload))

\* the record of a verified code is kept whatever its type
VerifyActionKeepsRecord(d, j, t, type, target, code) ==
  LET payload == [type |-> type, target |-> target, code |-> code]
  IN IF ~IsCodeValid(d, t, type, target, code)
     THEN Result(d, InvalidCode(payload, "invalid"))
     ELSE Result(d, HandleVerification(d, payload))

\* validateRequest: isCodeValid, deletion of the consumed record unless the
\* type is persistent, then the completion handler of the type
VerifyAction(d, j, t, type, target, code) ==
  LET payload == [type |-> type, target |-> target, code |-> code]
      consumed == IF type \in PersistentTypes THEN d
                  ELSE [d EXCEPT !.verifications =
                          d.verifications \ RecordOf(d, type, target)]
  IN IF ~IsCodeValid(d, t, type, target, code)
     THEN Result(d, InvalidCode(payload, "invalid"))
     ELSE Result(consumed, HandleVerification(consumed, payload))

----------------------------------------------------------------------------
(* reset-password *)

\* typeof v === 'string' && v
IsNonEmptyString(v) == v # Undefined /\ v # ""

\* typeof v === 'string' (z.string())
IsString(v) == v # Undefined

\* the verification cookie is not looked at
RequireResetPasswordUsernameLenient(d, j, t) ==
  IF ~RequireAnonymous(d, j, t) THEN "/" ELSE Undefined

\* requireResetPasswordUsername: where the guard redirects to, or Undefined
\* when the request may proceed
RequireResetPasswordUsername(d, j, t) ==
  IF ~RequireAnonymous(d, j, t) THEN "/"
  ELSE IF ~IsNonEmptyString(j.verify.resetPasswordUsername) THEN "/login"
  ELSE Undefined

ResetPasswordLoader(d, j, t) ==
  LET guard == RequireResetPasswordUsername(d, j, t)
  IN IF guard # Undefined
     THEN Result(d, Redirect("resetPasswordLoader", "guard", guard, NoSetCookie))
     ELSE Result(d, LoaderData("resetPasswordLoader",
                    {<<"resetPasswordUsername", j.verify.resetPasswordUsername>>}))

\* resetUserPassword({ username, password }): the update throws when the user
\* or its password record does not exist
ResetUserPasswordThrows(d, username) ==
  \A u \in d.users : u.username = username => PasswordOf(d, u.id) = {}

\* the update has no where clause
ResetUserPasswordOfEveryone(d, username, password) ==
  [d EXCEPT !.passwords = {[p EXCEPT !.hash = Hash(password)] : p \in d.passwords}]

ResetUserPassword(d, username, password) ==
  [d EXCEPT !.passwords =
     {IF \E u \in d.users : u.username = username /\ u.id = p.userId
      THEN [p EXCEPT !.hash = Hash(password)] ELSE p : p \in d.passwords}]

ResetPasswordAction(d, j, t, password, confirmPassword) ==
  LET guard == RequireResetPasswordUsername(d, j, t)
      resetPasswordUsername == j.verify.resetPasswordUsername
      payload == [password |-> password, confirmPassword |-> confirmPassword]
      errors == PasswordAndConfirmPasswordSchema(password, confirmPassword)
  IN IF guard # Undefined
     THEN Result(d, Redirect("resetPassword", "guard", guard, NoSetCookie))
     ELSE IF errors # {}
     THEN Result(d, Invalid("resetPassword", payload, errors, {}, {}))
     ELSE IF ResetUserPasswordThrows(d, resetPasswordUsername)
     THEN Result(d, Thrown("resetPassword"))
     ELSE Result(ResetUserPassword(d, resetPasswordUsername, password),
                 Redirect("resetPassword", "ok", "/login",
                          [NoSetCookie EXCEPT
                             !.verify = {DestroySession(j.verify)}]))

----------------------------------------------------------------------------
(* onboarding and onboarding/:provider *)

ProviderNames == {"github"}

ProviderParams == {"github", "gitlab"}

UsernameTaken == "A user already exists with this username"

\* signup / signupWithConnection throw on a unique-constraint violation
SignupThrows(d, email, username) ==
  \E u \in d.users : u.email = email \/ u.username = username

NewUser(d, email, username) ==
  [id |-> FreshId({u.id : u \in d.users}), username |-> username, email |-> email]

\* signup({ email, username, name, password }): user, password and session
Signup(d, t, email, username, password) ==
  LET user == NewUser(d, email, username)
      session == NewSession(d, t, user.id)
  IN [db |-> [d EXCEPT !.users = d.users \cup {user},
                       !.passwords = d.passwords
                          \cup {[userId |-> user.id, hash |-> Hash(password)]},
                       !.sessions = d.sessions \cup {session}],
      session |-> session]

\* signupWithConnection({ email, username, name, providerId, providerName }):
\* user (without password) and session
SignupWithConnection(d, t, email, username) ==
  LET user == NewUser(d, email, username)
      session == NewSession(d, t, user.id)
  IN [db |-> [d EXCEPT !.users = d.users \cup {user},
                       !.sessions = d.sessions \cup {session}],
      session |-> session]

\* the actor's session is not looked at
RequireOnboardingEmailOnly(d, j, t) ==
  IF ~IsNonEmptyString(j.verify.onboardingEmail) THEN "/signup" ELSE Undefined

\* requireOnboardingEmail: where the guard redirects to, or Undefined
RequireOnboardingEmail(d, j, t) ==
  IF ~RequireAnonymous(d, j, t) THEN "/"
  ELSE IF ~IsNonEmptyString(j.verify.onboardingEmail) THEN "/signup"
  ELSE Undefined

\* the provider id of the hand-off is not looked at
RequireDataWithoutProviderId(d, j, t, provider) ==
  IF ~RequireAnonymous(d, j, t) THEN "/"
  ELSE IF IsString(j.verify.onboardingEmail) /\ provider \in ProviderNames
       THEN Undefined
       ELSE "/signup"

\* requireData of onboarding/:provider
RequireData(d, j, t, provider) ==
  IF ~RequireAnonymous(d, j, t) THEN "/"
  ELSE IF IsString(j.verify.onboardingEmail) /\ provider \in ProviderNames
          /\ IsString(j.verify.providerId)
       THEN Undefined
       ELSE "/signup"

\* the username pre-check is left out
SignupErrorsWithoutPreCheck(d, base, username) == base

\* the errors of SignupFormSchema and of the username pre-check, which runs
\* only when no field of the form is missing
SignupErrors(d, base, username) ==
  base \cup (IF (\A e \in base : e[2] # "Required")
                /\ (\E u \in d.users : u.username = username)
             THEN {<<"username", UsernameTaken>>} ELSE {})

OnboardingLoader(d, j, t) ==
  LET guard == RequireOnboardingEmail(d, j, t)
  IN IF guard # Undefined
     THEN Result(d, Redirect("onboardingLoader", "guard", guard, NoSetCookie))
     ELSE Result(d, LoaderData("onboardingLoader",
                               {<<"email", j.verify.onboardingEmail>>}))

\* the headers of a finished signup: the auth session committed with
\* expires: remember ? session.expirationDate : undefined, the verification
\* session destroyed, and the toast
SignupHeaders(verifySession, session, remember) ==
  [auth |-> {CommitAuthSession(session, remember)},
   verify |-> {DestroySession(verifySession)},
   theme |-> {}, toast |-> {"Welcome"}]

\* the unique-constraint error is reported like a taken username
SignupFailureReported(handler, username) ==
  Invalid(handler, [username |-> username], {<<"username", UsernameTaken>>}, {}, {})

\* signup / signupWithConnection threw inside the transform: nothing catches the
\* error, the action rejects
SignupFailure(handler, username) == Thrown(handler)

\* the email of a submitted form field wins over the verified one
SignupEmailFromForm(form, email) ==
  IF form.email # Undefined THEN form.email ELSE email

\* the email of signup({ ...data, email }): data holds the fields of
\* SignupFormSchema only, and the verified email is spread last
SignupEmail(form, email) == email

OnboardingAction(d, j, t, form) ==
  LET guard == RequireOnboardingEmail(d, j, t)
      email == SignupEmail(form, j.verify.onboardingEmail)
      base == Required("username", form.username)
              \cup Required("agreeToTermsOfServiceAndPrivacyPolicy",
                            form.agreeToTermsOfServiceAndPrivacyPolicy)
              \cup PasswordAndConfirmPasswordSchema(form.password, form.confirmPassword)
      errors == SignupErrors(d, base, form.username)
  IN IF guard # Undefined
     THEN Result(d, Redirect("onboarding", "guard", guard, NoSetCookie))
     ELSE IF errors # {}
     THEN Result(d, Invalid("onboarding", form, errors, {}, {}))
     ELSE IF SignupThrows(d, email, form.username)
     THEN Result(d, SignupFailure("onboarding", form.username))
     ELSE LET s == Signup(d, t, email, form.username, form.password)
          IN Result(s.db, Redirect("onboarding", "ok", SafeRedirect(form.redirectTo),
                                   SignupHeaders(j.verify, s.session, form.remember)))

ProviderOnboardingLoader(d, j, t, provider) ==
  LET guard == RequireData(d, j, t, provider)
  IN IF guard # Undefined
     THEN Result(d, Redirect("providerOnboardingLoader", "guard", guard, NoSetCookie))
     ELSE Result(d, LoaderData("providerOnboardingLoader",
                               {<<"email", j.verify.onboardingEmail>>}))

ProviderOnboardingAction(d, j, t, provider, form) ==
  LET guard == RequireData(d, j, t, provider)
      email == j.verify.onboardingEmail
      base == Required("username", form.username)
              \cup Required("agreeToTermsOfServiceAndPrivacyPolicy",
                            form.agreeToTermsOfServiceAndPrivacyPolicy)
      errors == SignupErrors(d, base, form.username)
  IN IF guard # Undefined
     THEN Result(d, Redirect("providerOnboarding", "guard", guard, NoSetCookie))
     ELSE IF errors # {}
     THEN Result(d, Invalid("providerOnboarding", form, errors, {}, {}))
     ELSE IF SignupThrows(d, email, form.username)
     THEN Result(d, SignupFailure("providerOnboarding", form.username))
     ELSE LET s == SignupWithConnection(d, t, email, form.username)
          IN Result(s.db, Redirect("providerOnboarding", "ok",
                                   SafeRedirect(form.redirectTo),
                                   SignupHeaders(j.verify, s.session, form.remember)))

\* the provider callback of a new user: the hand-off cookie of onboarding/:provider
ProviderCallback(d, email) ==
  Result(d, Redirect("providerCallback", "ok", "/onboarding/github",
                     [NoSetCookie EXCEPT !.verify =
                        {CommitSession([EmptyVerifySession EXCEPT
                                          !.onboardingEmail = email,
                                          !.providerId = "gh-1",
                                          !.prefilledProfile = "profile"])}]))

\* The two awaits of a signup are separate steps for the database: the
\* username pre-check of superRefine (prisma.user.findUnique) and the write of
\* the transform (signup / signupWithConnection).  Requests of other clients
\* can be served in between.

Clients == {"browser", "other"}

\* the email the other client verified for itself
OtherClientEmail == "dave@x"

\* the cookie jar of the other client after its own hand-off
OtherJar(handler) ==
  ApplySetCookie(NoJar,
    IF handler = "onboarding"
    THEN OnboardingHandleVerification(InitDb,
           [type |-> "onboarding", target |-> OtherClientEmail,
            code |-> "111111"]).setCookie
    ELSE ProviderCallback(InitDb, OtherClientEmail).resp.setCookie)

\* the request got past guard, schema and username pre-check: the transform
\* is about to call signup
PassesPreCheck(r) == r.resp.exit \in {"ok", "thrown"}

\* what the transform of a validated request holds while it waits for signup
PendingSignup(client, handler, email, form, password) ==
  [client |-> client, handler |-> handler, email |-> email,
   username |-> form.username, password |-> password,
   remember |-> form.remember, redirectTo |-> form.redirectTo]

\* the write of a validated request and the response that follows it
SignupWrite(d, t, p, verifySession) ==
  IF SignupThrows(d, p.email, p.username)
  THEN Result(d, SignupFailure(p.handler, p.username))
  ELSE LET s == IF p.handler = "onboarding"
                THEN Signup(d, t, p.email, p.username, p.password)
                ELSE SignupWithConnection(d, t, p.email, p.username)
       IN Result(s.db, Redirect(p.handler, "ok", SafeRedirect(p.redirectTo),
                                SignupHeaders(verifySession, s.session, p.remember)))

----------------------------------------------------------------------------
(* resources/theme-switch *)

Themes == {"system", "light", "dark"}

SubmittedThemes == Themes \cup {Undefined, "blue"}

\* setTheme(theme): the theme cookie
SetTheme(theme) == theme

\* the submitted theme is stored as it came
ThemeSwitchActionUnvalidated(d, theme, redirectTo) ==
  Result(d, Response("themeSwitch", "ok", 200, Undefined,
                     Report([theme |-> theme, redirectTo |-> redirectTo], {}, {}, {}),
                     [NoSetCookie EXCEPT !.theme = {SetTheme(theme)}]))

ThemeSwitchAction(d, theme, redirectTo) ==
  LET payload == [theme |-> theme, redirectTo |-> redirectTo]
  IN IF theme \notin Themes
     \* invariantResponse(result.success, 'Invalid theme received')
     THEN Result(d, Response("themeSwitch", "invalid", 400, Undefined,
                             [NoBody EXCEPT !.shape = "text",
                                            !.formErrors = {"Invalid theme received"}],
                             NoSetCookie))
     ELSE IF Coerce(redirectTo) # Undefined
     THEN Result(d, Redirect("themeSwitch", "ok", redirectTo,
                             [NoSetCookie EXCEPT !.theme = {SetTheme(theme)}]))
     ELSE Result(d, Response("themeSwitch", "ok", 200, Undefined,
                             Report(payload, {}, {}, {}),
                             [NoSetCookie EXCEPT !.theme = {SetTheme(theme)}]))

\* the theme cookie as the root loader hands it to the control
UserPreference(j) == j.theme

\* the fetcher of the control while its submission is in flight
ThemeFetcher(theme) ==
  [client |-> "browser", handler |-> "themeSwitch", theme |-> theme]

\* useOptimisticThemeMode: the theme of the in-flight submission to
\* /resources/theme-switch when it passes ThemeFormSchema
OptimisticThemeMode(fetchers) ==
  LET themeFetchers == {f \in fetchers : f.handler = "themeSwitch"}
  IN IF themeFetchers # {} /\ (CHOOSE f \in themeFetchers : TRUE).theme \in Themes
     THEN (CHOOSE f \in themeFetchers : TRUE).theme
     ELSE Undefined

\* mode = optimisticMode ?? userPreference ?? 'system'
ThemeMode(fetchers, userPreference) ==
  IF OptimisticThemeMode(fetchers) # Undefined THEN OptimisticThemeMode(fetchers)
  ELSE IF userPreference # Undefined THEN userPreference
  ELSE "system"

\* the control only switches between light and dark
NextModeTwoWay(mode) == IF mode = "light" THEN "dark" ELSE "light"

\* nextMode of ThemeSwitch
NextMode(mode) ==
  IF mode = "system" THEN "light" ELSE IF mode = "light" THEN "dark" ELSE "system"

----------------------------------------------------------------------------
(* forms: useForm *)

Null == "<null>"

\* result.intent: null for a plain submission
FormIntents == {Null, "validate"}

\* result.error: undefined (no verdict), null (no error) or the errors
FormErrors == {Undefined, Null, "errors"}

FormResults == [intent : FormIntents, error : FormErrors]

\* { initialState: null }, before any update
InitialFormState == [status |-> Null, updates |-> <<>>]

\* an update with an intent leaves the status as it is
UpdateStatusKeepsOnIntent(status, result) ==
  IF result.error = Undefined THEN status
  ELSE IF result.error = Null THEN "success" ELSE "error"

\* the reducer given to useFormState
UpdateStatus(status, result) ==
  IF result.intent # Null THEN Null
  ELSE IF result.error = Undefined THEN status
  ELSE IF result.error = Null THEN "success" ELSE "error"

----------------------------------------------------------------------------
(* The requests the browser sends *)

PasswordPairs ==
  {<<"pw1", "pw1">>, <<"pw2", "pw2">>, <<"pw1", "pw2">>, <<"", "pw1">>}

SignupForm(username, agree, pair, remember, redirectTo) ==
  [username |-> username, agreeToTermsOfServiceAndPrivacyPolicy |-> agree,
   password |-> pair[1], confirmPassword |-> pair[2],
   remember |-> remember, redirectTo |-> redirectTo, email |-> Undefined]

\* every combination of field defects, and every remember / redirectTo for the
\* well-formed submission
OnboardingForms ==
  {SignupForm(u, a, p, Undefined, Undefined) :
     u \in Usernames, a \in {"on", Undefined},
     p \in {<<"pw1", "pw1">>, <<"pw1", "pw2">>, <<"", "pw1">>}}
  \cup {SignupForm("carol", "on", <<"pw1", "pw1">>, r, to) :
          r \in Remembers, to \in RedirectTos}
  \cup {[SignupForm("carol", "on", p, Undefined, Undefined)
            EXCEPT !.email = "mallory@x"] : p \in {<<"pw1", "pw1">>, <<"pw1", "pw2">>}}

LoginForm(username, password, remember, redirectTo) ==
  [username |-> username, password |-> password,
   remember |-> remember, redirectTo |-> redirectTo]

LoginForms ==
  {LoginForm(u, p, Undefined, Undefined) : u \in Usernames, p \in Passwords}
  \cup {LoginForm(u, p, "on", "/notes") :
          u \in Usernames \ {""}, p \in Passwords \ {""}}

ProviderSignupForm(username, agree, remember, redirectTo) ==
  [username |-> username, agreeToTermsOfServiceAndPrivacyPolicy |-> agree,
   remember |-> remember, redirectTo |-> redirectTo]

ProviderOnboardingForms ==
  {ProviderSignupForm(u, a, Undefined, Undefined) :
     u \in Usernames, a \in {"on", Undefined}}
  \cup {ProviderSignupForm("carol", "on", r, to) :
          r \in Remembers, to \in RedirectTos}

----------------------------------------------------------------------------
(* Specification *)

Init ==
  /\ db = InitDb
  /\ jar = NoJar
  /\ now = 0
  /\ req = [handler |-> "none"]
  /\ resp = Response("none", "init", 0, Undefined, NoBody, NoSetCookie)
  /\ pending = {}
  /\ formState = InitialFormState

\* request q is answered by r: the handler's writes reach the database and the
\* browser applies the response's set-cookie headers
Do(q, r) ==
  /\ req' = q
  /\ db' = r.db
  /\ resp' = r.resp
  /\ jar' = ApplySetCookie(jar, r.resp.setCookie)
  /\ now' = now
  /\ pending' = pending
  /\ formState' = formState

Tick ==
  /\ now < MaxTime
  /\ now' = now + 1
  /\ UNCHANGED <<db, jar, req, resp, pending, formState>>

Login ==
  /\ \E form \in LoginForms :
       Do([handler |-> "login", loginForm |-> form],
          LoginAction(db, jar, now, form.username, form.password,
                      form.remember, form.redirectTo))
  /\ Cardinality(db'.sessions) <= MaxSessions

LoginLoad ==
  Do([handler |-> "loginLoader"], LoginLoader(db, jar, now))

Logout ==
  /\ jar.auth.sessionId # NoSessionId
  /\ Do([handler |-> "logout"], LogoutAction(db, jar, now))

RequestCode(type) ==
    \E target \in VerificationTargets[type], code \in IssuedCodes :
      /\ Cardinality(db.verifications \ RecordOf(db, type, target)) < MaxRecords
      /\ Do([handler |-> "prepareVerification", type |-> type, target |-> target],
            Result(PrepareVerification(db, now, type, target, code),
                   Redirect("prepareVerification", "ok", "/verify", NoSetCookie)))

Verify(type) ==
    \E target \in VerificationTargets[type], code \in SubmittedCodes :
      Do([handler |-> "verify", type |-> type, target |-> target, code |-> code],
         VerifyAction(db, jar, now, type, target, code))

ResetPasswordLoad ==
  Do([handler |-> "resetPasswordLoader"], ResetPasswordLoader(db, jar, now))

ResetPassword ==
  \E pair \in PasswordPairs :
    Do([handler |-> "resetPassword", password |-> pair[1],
        confirmPassword |-> pair[2]],
       ResetPasswordAction(db, jar, now, pair[1], pair[2]))

OnboardingLoad ==
  Do([handler |-> "onboardingLoader"], OnboardingLoader(db, jar, now))

Onboarding ==
  /\ \E form \in OnboardingForms :
       Do([handler |-> "onboarding", form |-> form],
          OnboardingAction(db, jar, now, form))
  /\ Cardinality(db'.sessions) <= MaxSessions

ProviderCallbackNewUser ==
  \E email \in VerificationTargets["onboarding"] :
    Do([handler |-> "providerCallback", email |-> email], ProviderCallback(db, email))

ProviderOnboardingLoad ==
  \E provider \in ProviderParams :
    Do([handler |-> "providerOnboardingLoader", provider |-> provider],
       ProviderOnboardingLoader(db, jar, now, provider))

ProviderOnboarding ==
  /\ \E provider \in ProviderParams, form \in ProviderOnboardingForms :
       Do([handler |-> "providerOnboarding", provider |-> provider,
           providerForm |-> form],
          ProviderOnboardingAction(db, jar, now, provider, form))
  /\ Cardinality(db'.sessions) <= MaxSessions

CreatePasswordSubmit ==
  \E pair \in PasswordPairs :
    Do([handler |-> "createPassword", password |-> pair[1],
        confirmPassword |-> pair[2]],
       CreatePasswordAction(db, jar, now, pair[1], pair[2]))

LegacyCreatePasswordSubmit ==
  \E type \in SubmissionTypes, pair \in PasswordPairs :
    Do([handler |-> "legacyCreatePassword", type |-> type, password |-> pair[1],
        confirmPassword |-> pair[2]],
       LegacyCreatePasswordAction(db, jar, now, type, pair[1], pair[2]))

ChangePasswordSubmit ==
  \E currentPassword \in Passwords, pair \in PasswordPairs :
    Do([handler |-> "changePassword", currentPassword |-> currentPassword,
        newPassword |-> pair[1], confirmNewPassword |-> pair[2]],
       ChangePasswordAction(db, jar, now, currentPassword, pair[1], pair[2]))

CreatePasswordLoad ==
  Do([handler |-> "createPasswordLoader"], CreatePasswordLoader(db, jar, now))

LegacyCreatePasswordLoad ==
  Do([handler |-> "legacyCreatePasswordLoader"],
     LegacyCreatePasswordLoader(db, jar, now))

ChangePasswordLoad ==
  Do([handler |-> "changePasswordLoader"], ChangePasswordLoader(db, jar, now))

Photo ==
  \E intent \in PhotoIntents, file \in PhotoFiles, failAt \in 0..2 :
    Do([handler |-> "photo", intent |-> intent, photoFile |-> file,
        failAt |-> failAt],
       PhotoAction(db, jar, now, intent, file, failAt))

ThemeSwitchSubmit ==
  \E theme \in SubmittedThemes, redirectTo \in RedirectTos :
    Do([handler |-> "themeSwitch", theme |-> theme, redirectTo |-> redirectTo],
       ThemeSwitchAction(db, theme, redirectTo))

\* the control is clicked: its form is submitted with theme = nextMode through
\* the fetcher, taking the place of a submission still in flight
ThemeToggle ==
  LET nextMode == NextMode(ThemeMode(pending, UserPreference(jar)))
  IN /\ pending' = {ThemeFetcher(nextMode)}
     /\ req' = [handler |-> "themeToggle", theme |-> nextMode,
                redirectTo |-> Undefined]
     /\ UNCHANGED <<db, jar, now, resp, formState>>

\* the in-flight submission of the control is answered and the fetcher is idle
ThemeToggleDone ==
  \E f \in pending :
    LET r == ThemeSwitchAction(db, f.theme, Undefined)
    IN /\ pending' = {}
       /\ req' = [handler |-> "themeSwitch", theme |-> f.theme,
                  redirectTo |-> Undefined, fetcher |-> f]
       /\ db' = r.db
       /\ resp' = r.resp
       /\ jar' = ApplySetCookie(jar, r.resp.setCookie)
       /\ now' = now
       /\ formState' = formState

\* the theme control next to plain submissions of the theme form
NextTheme ==
  \/ ThemeToggle
  \/ ThemeToggleDone
  \/ ThemeSwitchSubmit

SpecTheme == Init /\ [][NextTheme]_vars

\* onUpdate(update): the form control hands a result to updateStatus
FormUpdate ==
  \E result \in FormResults :
    /\ Len(formState.updates) < MaxUpdates
    /\ formState' = [status |-> UpdateStatus(formState.status, result),
                     updates |-> Append(formState.updates, result)]
    /\ UNCHANGED <<db, jar, now, req, resp, pending>>

\* a form that is given one result after the other
NextForm == FormUpdate

SpecForm == Init /\ [][NextForm]_vars

\* the verifier and the reset-password flow
NextVerify ==
  \/ Tick
  \/ Login
  \/ Logout
  \/ RequestCode("reset-password")
  \/ Verify("reset-password")
  \/ ResetPasswordLoad
  \/ ResetPassword

SpecVerify == Init /\ [][NextVerify]_vars

\* the two onboarding flows
NextOnboarding ==
  \/ Logout
  \/ RequestCode("onboarding")
  \/ Verify("onboarding")
  \/ ProviderCallbackNewUser
  \/ OnboardingLoad
  \/ Onboarding
  \/ ProviderOnboardingLoad
  \/ ProviderOnboarding

SpecOnboarding == Init /\ [][NextOnboarding]_vars

\* the settings pages of a logged-in user
NextSettings ==
  \/ Login
  \/ Logout
  \/ ProviderCallbackNewUser
  \/ ProviderOnboarding
  \/ CreatePasswordSubmit
  \/ LegacyCreatePasswordSubmit
  \/ ChangePasswordSubmit
  \/ Photo

SpecSettings == Init /\ [][NextSettings]_vars

\* a password reset in a database where a second user signed up
NextReset ==
  \/ Logout
  \/ RequestCode("onboarding")
  \/ Verify("onboarding")
  \/ Onboarding
  \/ RequestCode("reset-password")
  \/ Verify("reset-password")
  \/ ResetPasswordLoad
  \/ ResetPassword

SpecReset == Init /\ [][NextReset]_vars

\* the two verifications and the pages they hand over to, in one browser
NextCrossFlow ==
  \/ Logout
  \/ RequestCode("onboarding")
  \/ Verify("onboarding")
  \/ RequestCode("reset-password")
  \/ Verify("reset-password")
  \/ OnboardingLoad
  \/ Onboarding
  \/ ProviderOnboardingLoad
  \/ ProviderOnboarding
  \/ ResetPasswordLoad
  \/ ResetPassword

SpecCrossFlow == Init /\ [][NextCrossFlow]_vars

\* the password pages of a logged-in user, one request at a time
NextPasswords ==
  \/ Login
  \/ Logout
  \/ ProviderCallbackNewUser
  \/ ProviderOnboarding
  \/ CreatePasswordLoad
  \/ CreatePasswordSubmit
  \/ LegacyCreatePasswordLoad
  \/ LegacyCreatePasswordSubmit
  \/ ChangePasswordLoad
  \/ ChangePasswordSubmit

SpecPasswords == Init /\ [][NextPasswords]_vars

\* the responses of the three hand-offs into a flow: a verified reset-password
\* code, a verified onboarding code, the provider callback of a new user
Handoffs ==
  {[req |-> [handler |-> "verify", type |-> "reset-password",
             target |-> "alice@x", code |-> "111111"],
    resp |-> ResetPasswordHandleVerification(InitDb,
               [type |-> "reset-password", target |-> "alice@x", code |-> "111111"])],
   [req |-> [handler |-> "verify", type |-> "onboarding",
             target |-> "carol@x", code |-> "111111"],
    resp |-> OnboardingHandleVerification(InitDb,
               [type |-> "onboarding", target |-> "carol@x", code |-> "111111"])],
   [req |-> [handler |-> "providerCallback", email |-> "carol@x"],
    resp |-> ProviderCallback(InitDb, "carol@x").resp]}

\* the browser has just been handed into one of the flows
InitHandoff ==
  /\ db = InitDb
  /\ now = 0
  /\ pending = {}
  /\ formState = InitialFormState
  /\ \E handoff \in Handoffs :
       /\ req = handoff.req
       /\ resp = handoff.resp
       /\ jar = ApplySetCookie(NoJar, handoff.resp.setCookie)

\* the form handlers alone, from the state a hand-off leaves
NextHandlers ==
  \/ Login
  \/ ResetPassword
  \/ Onboarding
  \/ ProviderOnboarding
  \/ CreatePasswordSubmit
  \/ LegacyCreatePasswordSubmit
  \/ ChangePasswordSubmit
  \/ Photo
  \/ ThemeSwitchSubmit

SpecHandlers == InitHandoff /\ [][NextHandlers]_vars

\* the one-time code verifier alone: codes of a consumable and of a persistent
\* type are requested and submitted while time passes
NextVerifier ==
  \/ Tick
  \/ RequestCode("reset-password")
  \/ Verify("reset-password")
  \/ RequestCode("2fa")
  \/ Verify("2fa")

SpecVerifier == Init /\ [][NextVerifier]_vars

JarOf(client, handler) == IF client = "browser" THEN jar ELSE OtherJar(handler)

\* a client's onboarding submission runs up to the call of signup
OnboardingValidate ==
  \E client \in Clients, form \in OnboardingForms :
    /\ Cardinality(pending) < MaxPending
    /\ PassesPreCheck(OnboardingAction(db, JarOf(client, "onboarding"), now, form))
    /\ pending' = pending \cup
         {PendingSignup(client, "onboarding",
                        SignupEmail(form, JarOf(client, "onboarding").verify.onboardingEmail),
                        form, form.password)}
    /\ req' = [handler |-> "onboardingValidate", client |-> client, form |-> form]
    /\ UNCHANGED <<db, jar, now, resp, formState>>

ProviderOnboardingValidate ==
  \E client \in Clients, form \in ProviderOnboardingForms :
    /\ Cardinality(pending) < MaxPending
    /\ PassesPreCheck(ProviderOnboardingAction(db, JarOf(client, "providerOnboarding"),
                                               now, "github", form))
    /\ pending' = pending \cup
         {PendingSignup(client, "providerOnboarding",
                        JarOf(client, "providerOnboarding").verify.onboardingEmail,
                        form, Undefined)}
    /\ req' = [handler |-> "providerOnboardingValidate", client |-> client,
               providerForm |-> form]
    /\ UNCHANGED <<db, jar, now, resp, formState>>

\* signup of a validated request runs and the request is answered
SignupWriteStep ==
  \E p \in pending :
    LET r == SignupWrite(db, now, p, JarOf(p.client, p.handler).verify)
    IN /\ pending' = pending \ {p}
       /\ req' = [handler |-> "signupWrite", signup |-> p]
       /\ db' = r.db
       /\ resp' = r.resp
       /\ jar' = IF p.client = "browser"
                 THEN ApplySetCookie(jar, r.resp.setCookie) ELSE jar
       /\ now' = now
       /\ formState' = formState
       /\ Cardinality(db'.sessions) <= MaxSessions

\* onboarding submissions of two clients whose validation and write interleave
NextConcurrent ==
  \/ OnboardingValidate
  \/ ProviderOnboardingValidate
  \/ SignupWriteStep

SpecConcurrent == InitHandoff /\ [][NextConcurrent]_vars

\* what a create-password request holds between requireNoPassword and its write
PendingCreatePassword(client, userId, password) ==
  [client |-> client, handler |-> "createPassword", userId |-> userId,
   password |-> password]

\* a create-password request of the logged-in user, sent from one of two tabs,
\* runs up to the call of prisma.user.update
CreatePasswordValidate ==
  \E client \in Clients, pair \in PasswordPairs :
    /\ Cardinality(pending) < MaxPending
    /\ PassesPreCheck(CreatePasswordAction(db, jar, now, pair[1], pair[2]))
    /\ pending' = pending \cup
         {PendingCreatePassword(client, RequireUserId(db, jar, now), pair[1])}
    /\ req' = [handler |-> "createPasswordValidate", client |-> client,
               password |-> pair[1], confirmPassword |-> pair[2]]
    /\ UNCHANGED <<db, jar, now, resp, formState>>

\* the write of a validated create-password request runs and the request is
\* answered
CreatePasswordWriteStep ==
  \E p \in pending :
    LET r == CreatePasswordWrite(p.handler, db, p.userId, p.password)
    IN /\ pending' = pending \ {p}
       /\ req' = [handler |-> "createPasswordWrite", create |-> p]
       /\ db' = r.db
       /\ resp' = r.resp
       /\ jar' = ApplySetCookie(jar, r.resp.setCookie)
       /\ now' = now
       /\ formState' = formState

\* create-password requests of one user whose guard and write interleave
NextCreateRace ==
  \/ ProviderCallbackNewUser
  \/ ProviderOnboarding
  \/ CreatePasswordValidate
  \/ CreatePasswordWriteStep

SpecCreateRace == Init /\ [][NextCreateRace]_vars

\* loaders and actions of the anonymous-only pages, from the state a hand-off
\* leaves, with logging in and out in between
NextGuards ==
  \/ Login
  \/ LoginLoad
  \/ Logout
  \/ ResetPasswordLoad
  \/ ResetPassword
  \/ OnboardingLoad
  \/ Onboarding
  \/ ProviderOnboardingLoad
  \/ ProviderOnboarding

SpecGuards == InitHandoff /\ [][NextGuards]_vars

----------------------------------------------------------------------------
(* Claims *)

\* the step answers a request to the named handler
Handled(handler) == req'.handler = handler /\ now' = now

\* what an observer of a response sees besides the echo of what was submitted
Observable(r) ==
  [status |-> r.status, location |-> r.location, setCookie |-> r.setCookie,
   shape |-> r.body.shape, fieldErrors |-> r.body.fieldErrors,
   formErrors |-> r.body.formErrors]

\* C1: when reset-password's handleVerification runs (the code was valid) for
\* a target that matches a user by email or by username, the response is a
\* redirect to /reset-password whose set-cookie carries a verification session
\* with resetPasswordUsername = that user's username, and with that cookie the
\* flow's anonymous actor passes requireResetPasswordUsername.
C1_ResetPasswordHandoff ==
  [][(/\ Handled("verify")
      /\ req'.type = "reset-password"
      /\ IsCodeValid(db, now, req'.type, req'.target, req'.code)
      /\ MatchedUsers(db, req'.target) # {})
     => \A u \in MatchedUsers(db, req'.target) :
          /\ resp'.status = 302
          /\ resp'.location = "/reset-password"
          /\ resp'.setCookie.verify =
               {[EmptyVerifySession EXCEPT !.resetPasswordUsername = u.username]}
          /\ jar'.verify.resetPasswordUsername = u.username
          /\ RequireAnonymous(db', jar', now')
               => RequireResetPasswordUsername(db', jar', now') = Undefined]_vars

\* C1 witness: a code for the email of alice was verified and the browser
\* holds her username
C1_Witness ==
  /\ req.handler = "verify"
  /\ req.target = "alice@x"
  /\ resp.exit = "ok"
  /\ jar.verify.resetPasswordUsername = "alice"
  /\ RequireResetPasswordUsername(db, jar, now) = Undefined

InvalidCodeObservable ==
  [status |-> 400, location |-> Undefined, setCookie |-> NoSetCookie,
   shape |-> "result", fieldErrors |-> {<<"code", "Invalid code">>},
   formErrors |-> {}]

\* C2: in the reset-password flow a valid code for a target that matches no
\* user and a wrong code for a target that matches a user are answered alike:
\* 400, code: ['Invalid code'], no set-cookie, no redirect, and the browser's
\* verification cookie is left as it was.
C2_AntiEnumeration ==
  [][(/\ Handled("verify")
      /\ req'.type = "reset-password"
      /\ \/ /\ IsCodeValid(db, now, req'.type, req'.target, req'.code)
            /\ MatchedUsers(db, req'.target) = {}
         \/ /\ ~IsCodeValid(db, now, req'.type, req'.target, req'.code)
            /\ MatchedUsers(db, req'.target) # {})
     => /\ Observable(resp') = InvalidCodeObservable
        /\ jar' = jar]_vars

\* C2 witness: the valid code of a target without user was answered
C2_Witness ==
  /\ req.handler = "verify"
  /\ req.target = "ghost"
  /\ resp.exit = "notFound"
  /\ resp.status = 400

FormOf(q) == IF q.handler = "onboarding" THEN q.form ELSE q.providerForm

\* the state a request to /onboarding or /onboarding/:provider lacks
MissingOnboardingState(j, q) ==
  IF q.handler \in {"onboardingLoader", "onboarding"}
  THEN ~IsNonEmptyString(j.verify.onboardingEmail)
  ELSE \/ ~IsString(j.verify.onboardingEmail)
       \/ ~IsString(j.verify.providerId)
       \/ q.provider \notin ProviderNames

\* C3: for an anonymous actor, a loader or action request to /onboarding
\* without a non-empty string onboardingEmail in the verification cookie, and
\* one to /onboarding/:provider without a string onboardingEmail, without a
\* string providerId or with an unknown :provider, is answered by a redirect
\* to /signup and nothing else: no body, no cookie, no user, no session.
C3_MissingOnboardingStateRedirects ==
  [][(/\ \E h \in {"onboardingLoader", "onboarding", "providerOnboardingLoader",
                   "providerOnboarding"} : Handled(h)
      /\ RequireAnonymous(db, jar, now)
      /\ MissingOnboardingState(jar, req'))
     => /\ resp' = Redirect(req'.handler, "guard", "/signup", NoSetCookie)
        /\ db' = db
        /\ jar' = jar]_vars

\* C3 witness: a well-formed provider signup form was sent with the cookie of
\* the plain onboarding flow (no providerId) and was redirected
C3_Witness ==
  /\ req.handler = "providerOnboarding"
  /\ req.provider = "github"
  /\ req.providerForm.username = "carol"
  /\ req.providerForm.agreeToTermsOfServiceAndPrivacyPolicy = "on"
  /\ jar.verify.onboardingEmail = "carol@x"
  /\ jar.verify.providerId = Undefined
  /\ resp.location = "/signup"
  /\ db.users = InitDb.users

\* C4: an authenticated user with a password submits a well-formed
\* currentPassword that does not verify against the stored hash, with
\* newPassword = confirmNewPassword valid: the answer is 400, its only error
\* is 'Incorrect password.' on currentPassword, and the stored hash is unchanged.
C4_WrongCurrentPassword ==
  [][(/\ Handled("changePassword")
      /\ RequireUserId(db, jar, now) # 0
      /\ RequirePassword(db, RequireUserId(db, jar, now))
      /\ Coerce(req'.currentPassword) # Undefined
      /\ ~VerifyUserPassword(db, RequireUserId(db, jar, now), req'.currentPassword)
      /\ Coerce(req'.newPassword) # Undefined
      /\ req'.newPassword = req'.confirmNewPassword)
     => /\ resp'.status = 400
        /\ resp'.body.fieldErrors = {<<"currentPassword", "Incorrect password.">>}
        /\ resp'.body.formErrors = {}
        /\ db' = db]_vars

\* C4 witness: pw2 was submitted as current password while the hash is that of pw1
C4_Witness ==
  /\ req.handler = "changePassword"
  /\ req.currentPassword = "pw2"
  /\ req.newPassword = "pw2"
  /\ req.confirmNewPassword = "pw2"
  /\ resp.status = 400
  /\ PasswordOf(db, RequireUserId(db, jar, now)) =
       {[userId |-> RequireUserId(db, jar, now), hash |-> Hash("pw1")]}

ImagesOf(d, userId) == {i \in d.images : i.userId = userId}

\* C5: after every photo request each user has at most one image; a 'submit'
\* ends either accepted with exactly the new image stored for the user, or
\* not accepted (also when a statement of the transaction throws) with the
\* images as they were.
C5_PhotoReplaceAtomic ==
  [][Handled("photo")
     => /\ \A u \in db'.users : Cardinality(ImagesOf(db', u.id)) <= 1
        /\ (RequireUserId(db, jar, now) # 0 /\ req'.intent = "submit")
             => \/ /\ resp'.exit = "ok"
                   /\ ImagesOf(db', RequireUserId(db, jar, now)) =
                        {[userId |-> RequireUserId(db, jar, now),
                          blob |-> req'.photoFile.size]}
                \/ /\ resp'.exit # "ok"
                   /\ db'.images = db.images]_vars

\* C5 witness: the create of a replace threw after the delete, and the image
\* stored before is still there
C5_Witness ==
  /\ req.handler = "photo"
  /\ req.intent = "submit"
  /\ req.photoFile = File(1)
  /\ req.failAt = 2
  /\ resp.exit = "thrown"
  /\ ImagesOf(db, RequireUserId(db, jar, now)) =
       {[userId |-> RequireUserId(db, jar, now), blob |-> MAX_SIZE]}

\* C6: a 'delete' request of an authenticated user (one the form parser
\* accepts) redirects to /settings/profile and leaves the user without image
\* whether or not one existed, leaves every other user's images alone, and
\* sent again it gives the same response and the same database.
C6_PhotoDeleteIdempotent ==
  [][(/\ Handled("photo")
      /\ RequireUserId(db, jar, now) # 0
      /\ req'.intent = "delete"
      /\ ~ParseFormDataThrows(req'.photoFile))
     => /\ resp'.status = 302
        /\ resp'.location = "/settings/profile"
        /\ ImagesOf(db', RequireUserId(db, jar, now)) = {}
        /\ \A u \in db.users :
             u.id # RequireUserId(db, jar, now)
               => ImagesOf(db', u.id) = ImagesOf(db, u.id)
        /\ PhotoAction(db', jar', now', "delete", req'.photoFile, req'.failAt)
             = Result(db', resp')]_vars

\* C6 witness: a delete was answered while another user has an image
C6_Witness ==
  /\ req.handler = "photo"
  /\ req.intent = "delete"
  /\ resp.exit = "ok"
  /\ ImagesOf(db, RequireUserId(db, jar, now)) = {}
  /\ \E i \in db.images : i.userId # RequireUserId(db, jar, now)

\* C7: a 'submit' whose photoFile has size 0 or more than MAX_SIZE is
\* answered 400 and the stored image is unchanged; one with 0 < size <=
\* MAX_SIZE replaces the image and redirects to /settings/profile.
C7_PhotoSizeValidation ==
  [][(/\ Handled("photo")
      /\ RequireUserId(db, jar, now) # 0
      /\ req'.intent = "submit"
      /\ req'.photoFile.present
      /\ req'.failAt = 0)
     => IF req'.photoFile.size = 0 \/ req'.photoFile.size > MAX_SIZE
        THEN resp'.status = 400 /\ db'.images = db.images
        ELSE /\ resp'.status = 302
             /\ resp'.location = "/settings/profile"
             /\ ImagesOf(db', RequireUserId(db, jar, now)) =
                  {[userId |-> RequireUserId(db, jar, now),
                    blob |-> req'.photoFile.size]}]_vars

FlowHandlers ==
  {"onboarding", "providerOnboarding", "resetPassword", "login", "createPassword",
   "legacyCreatePassword", "changePassword", "photo", "themeSwitch"}

\* C8 as claimed: every flow handler answers a submission that fails its
\* schema or cross-field validation with 400 and { result: <echo with
\* errors> }, changes nothing in the database and sets no cookie.
C8_ValidationFailureContract ==
  [][(\E h \in FlowHandlers : Handled(h) /\ resp'.handler = h)
      /\ resp'.exit = "invalid"
     => /\ resp'.status = 400
        /\ resp'.body.shape = "result"
        /\ db' = db
        /\ resp'.setCookie = NoSetCookie
        /\ jar' = jar]_vars

\* C8 amended: a submission that fails the handler's schema or cross-field
\* validation changes nothing in the database and sets no cookie; onboarding,
\* provider onboarding, reset-password, login, create-password,
\* change-password and profile photo answer it with 400 and { result: ... };
\* theme-switch answers 400 with the plain message 'Invalid theme received';
\* the earlier create-password route answers with the rejected submission
\* itself as body, with 400 for a 'submit' and 200 otherwise.  A photo
\* upload larger than MAX_SIZE never reaches the schema: the form parser
\* throws, the answer is a 500 and nothing is stored.
C8_ValidationFailureAmended ==
  [][/\ (/\ Handled("photo")
         /\ RequireUserId(db, jar, now) # 0
         /\ req'.photoFile.present
         /\ req'.photoFile.size > MAX_SIZE)
        => /\ resp'.exit = "thrown"
           /\ resp'.status = 500
           /\ db' = db
           /\ jar' = jar
     /\ (/\ \E h \in FlowHandlers : Handled(h) /\ resp'.handler = h
         /\ resp'.exit = "invalid")
        => /\ db' = db
           /\ resp'.setCookie = NoSetCookie
           /\ jar' = jar
           /\ IF req'.handler = "themeSwitch"
              THEN /\ resp'.status = 400
                   /\ resp'.body.shape = "text"
                   /\ resp'.body.formErrors = {"Invalid theme received"}
              ELSE IF req'.handler = "legacyCreatePassword"
              THEN /\ resp'.status = IF req'.type = "submit" THEN 400 ELSE 200
                   /\ resp'.body.shape = "bare"
              ELSE /\ resp'.status = 400
                   /\ resp'.body.shape = "result"]_vars

\* C8 witness: a theme outside the enum was answered with the plain 400
C8_Witness ==
  /\ req.handler = "themeSwitch"
  /\ req.theme = "blue"
  /\ resp.exit = "invalid"
  /\ resp.status = 400
  /\ resp.body.shape = "text"
  /\ jar.theme = Undefined

PasswordFields ==
  {"password", "confirmPassword", "currentPassword", "newPassword",
   "confirmNewPassword"}

\* C9: no validation-failure response of a handler whose form has password
\* fields (login, onboarding, reset-password, create-password,
\* change-password) echoes a submitted password.
C9_SensitiveFieldsHidden ==
  (/\ resp.handler \in {"login", "onboarding", "resetPassword", "createPassword",
                        "legacyCreatePassword", "changePassword"}
   /\ resp.exit = "invalid")
  => \A e \in resp.body.echo : e[1] \notin PasswordFields

\* the session a signup step created
CreatedSessions == db'.sessions \ db.sessions

\* C10: a successful onboarding (plain or via provider) stores in the auth
\* cookie the id of the session signup created in that request, and the
\* cookie's expiry is the session's expirationDate if 'remember' was checked
\* and absent otherwise.
C10_RememberControlsExpiry ==
  [][(/\ Handled("onboarding") \/ Handled("providerOnboarding")
      /\ resp'.exit = "ok")
     => /\ Cardinality(CreatedSessions) = 1
        /\ \A s \in CreatedSessions :
             /\ s.expirationDate # NoExpiry
             /\ resp'.setCookie.auth =
                  {[sessionId |-> s.id,
                    expires |-> IF FormOf(req').remember = "on"
                                THEN s.expirationDate ELSE NoExpiry]}
             /\ jar'.auth.sessionId = s.id
             /\ (jar'.auth.expires = s.expirationDate)
                  <=> (FormOf(req').remember = "on")]_vars

\* C10 witness: a signup without 'remember' left a session-only auth cookie
C10_Witness ==
  /\ req.handler = "onboarding"
  /\ req.form.remember = Undefined
  /\ resp.exit = "ok"
  /\ jar.auth.expires = NoExpiry
  /\ \E s \in db.sessions : s.id = jar.auth.sessionId

FlowCompletions == {"onboarding", "providerOnboarding", "resetPassword"}

AnonymousOnly ==
  {"loginLoader", "login", "onboardingLoader", "onboarding",
   "providerOnboardingLoader", "providerOnboarding", "resetPasswordLoader",
   "resetPassword"}

\* C12: loader and action of login, onboarding, provider onboarding and
\* reset-password turn an authenticated actor away with a redirect before
\* anything else happens: no user, password or session is created or changed
\* and no cookie is set, whatever cookie and form the request carries; and a
\* request stopped by a guard never changes the database or a cookie.
C12_AnonymousGuardFirst ==
  [][(\E h \in AnonymousOnly : Handled(h) /\ resp'.handler = h)
     => /\ ~RequireAnonymous(db, jar, now)
           => /\ resp'.exit = "guard"
              /\ resp'.status = 302
              /\ db' = db
              /\ jar' = jar
              /\ resp'.setCookie = NoSetCookie
        /\ resp'.exit = "guard"
           => /\ db' = db
              /\ jar' = jar
              /\ resp'.setCookie = NoSetCookie]_vars

\* C12 witness: a logged-in actor whose browser holds a verified onboarding
\* email submitted a complete signup form and was turned away
C12_Witness ==
  /\ req.handler = "onboarding"
  /\ ~RequireAnonymous(db, jar, now)
  /\ IsNonEmptyString(jar.verify.onboardingEmail)
  /\ req.form.username = "carol"
  /\ req.form.password = "pw1"
  /\ req.form.confirmPassword = "pw1"
  /\ resp.exit = "guard"
  /\ Cardinality(db.users) = 1

\* C13: for an anonymous actor, a loader or action request to /reset-password
\* whose verification cookie holds no non-empty string resetPasswordUsername
\* is answered by a redirect to /login, and no password (nothing in the
\* database, no cookie) changes, whatever the form contains.
C13_MissingResetStateRedirects ==
  [][(/\ Handled("resetPasswordLoader") \/ Handled("resetPassword")
      /\ RequireAnonymous(db, jar, now)
      /\ ~IsNonEmptyString(jar.verify.resetPasswordUsername))
     => /\ resp'.status = 302
        /\ resp'.location = "/login"
        /\ resp'.body = NoBody
        /\ db' = db
        /\ jar' = jar
        /\ resp'.setCookie = NoSetCookie]_vars

\* C13 witness: a well-formed new password was submitted without the cookie
\* of a verified reset and the request was redirected to /login
C13_Witness ==
  /\ req.handler = "resetPassword"
  /\ req.password = "pw2"
  /\ req.confirmPassword = "pw2"
  /\ ~IsNonEmptyString(jar.verify.resetPasswordUsername)
  /\ resp.exit = "guard"
  /\ resp.location = "/login"
  /\ db.passwords = InitDb.passwords

\* C14: when a code of type onboarding verifies, the answer is a redirect to
\* /onboarding whose set-cookie commits a verification session with
\* onboardingEmail = the verified target; and the user a successful onboarding
\* action creates has exactly the email of the browser's verification cookie,
\* whatever email the submitted form carries.
C14_OnboardingHandoff ==
  [][/\ (/\ Handled("verify")
         /\ req'.type = "onboarding"
         /\ IsCodeValid(db, now, req'.type, req'.target, req'.code))
        => /\ resp'.status = 302
           /\ resp'.location = "/onboarding"
           /\ resp'.setCookie.verify =
                {[EmptyVerifySession EXCEPT !.onboardingEmail = req'.target]}
           /\ jar'.verify.onboardingEmail = req'.target
     /\ (Handled("onboarding") /\ resp'.exit = "ok")
        => /\ Cardinality(db'.users \ db.users) = 1
           /\ \A u \in db'.users \ db.users :
                /\ u.email = jar.verify.onboardingEmail
                /\ u.username = req'.form.username]_vars

\* C14 witness: a signup whose form carried another email created the user
\* with the verified email
C14_Witness ==
  /\ req.handler = "onboarding"
  /\ req.form.email = "mallory@x"
  /\ resp.exit = "ok"
  /\ \E u \in db.users : u.username = "carol" /\ u.email = "carol@x"
  /\ \A u \in db.users : u.email # "mallory@x"

\* C15: two signups with the same free username can both pass the username
\* pre-check before either writes; at most one user with a username ever
\* exists, because the write of the second one fails on the unique
\* constraint; and that failure is answered as an uncaught error (500), not
\* with the 400 'A user already exists with this username' report.
C15_UsernameRace ==
  [][/\ \A u1, u2 \in db'.users : u1.username = u2.username => u1 = u2
     /\ (/\ req'.handler = "signupWrite"
         /\ \E u \in db.users : u.username = req'.signup.username)
        => /\ resp'.exit = "thrown"
           /\ resp'.status = 500
           /\ resp'.body = NoBody
           /\ db' = db]_vars

\* C15 witness: the other client's signup as carol was validated while carol
\* was free, the browser's signup as carol was written first, and the other
\* client's write then failed
C15_Witness ==
  /\ req.handler = "signupWrite"
  /\ req.signup.client = "other"
  /\ req.signup.username = "carol"
  /\ resp.exit = "thrown"
  /\ \E u \in db.users : u.username = "carol" /\ u.email = "carol@x"
  /\ \A u \in db.users : u.email # OtherClientEmail

Pairs ==
  {<<type, target>> : type \in VerificationTypes,
                      target \in UNION {VerificationTargets[t] : t \in VerificationTypes}}

\* C16: in every state there is at most one verification record for each
\* (type, target), and after a new code is issued for a pair the pair's record
\* is the new one: the new code validates and the previously issued code, if
\* it differs, no longer does.
C16_OneRecordPerPair ==
  [][/\ \A pair \in Pairs : Cardinality(RecordOf(db', pair[1], pair[2])) <= 1
     /\ Handled("prepareVerification")
        => \E code \in IssuedCodes :
             /\ RecordOf(db', req'.type, req'.target) =
                  {NewRecord(now, req'.type, req'.target, code)}
             /\ IsCodeValid(db', now', req'.type, req'.target, code)
             /\ \A old \in RecordOf(db, req'.type, req'.target) :
                  old.code # code
                  => ~IsCodeValid(db', now', req'.type, req'.target, old.code)]_vars

\* C16 witness: code 222222 was just issued for alice; its record is the only
\* one of the pair and code 111111, issuable for the same pair, does not validate
C16_Witness ==
  /\ req.handler = "prepareVerification"
  /\ req.type = "reset-password"
  /\ req.target = "alice"
  /\ now = 0
  /\ RecordOf(db, "reset-password", "alice") =
       {NewRecord(0, "reset-password", "alice", "222222")}
  /\ ~IsCodeValid(db, now, "reset-password", "alice", "111111")

\* the record of the pair is past its expiry
Expired(d, t, type, target) ==
  \E v \in RecordOf(d, type, target) :
    v.expiresAt # NullExpiresAt /\ v.expiresAt <= t

\* C17: a verification is refused with 'Invalid code' whenever the pair has no
\* record or its record's expiresAt is at or before now, even for the code the
\* record holds, and nothing changes; a record whose expiresAt is null
\* validates its code at any time.
C17_FailsClosed ==
  [][Handled("verify")
     => /\ (RecordOf(db, req'.type, req'.target) = {}
            \/ Expired(db, now, req'.type, req'.target))
           => /\ ~IsCodeValid(db, now, req'.type, req'.target, req'.code)
              /\ Observable(resp') = InvalidCodeObservable
              /\ db' = db
              /\ jar' = jar
        /\ (\E v \in RecordOf(db, req'.type, req'.target) :
              v.expiresAt = NullExpiresAt /\ v.code = req'.code)
           => /\ IsCodeValid(db, now, req'.type, req'.target, req'.code)
              /\ resp'.exit = "ok"]_vars

\* C17 witness: the code the record holds was submitted at the record's
\* expiresAt and refused
C17_Witness ==
  /\ req.handler = "verify"
  /\ resp.exit = "invalid"
  /\ \E v \in RecordOf(db, req.type, req.target) :
       v.code = req.code /\ v.expiresAt = now

\* C18: a successful validation of a code of a non-persistent type deletes the
\* pair's record, also when the completion handler then answers with an
\* error, so the same code for the same target is refused with 'Invalid code'
\* from then on; for a persistent type the record is retained.
C18_SingleUse ==
  [][(/\ Handled("verify")
      /\ IsCodeValid(db, now, req'.type, req'.target, req'.code))
     => IF req'.type \in PersistentTypes
        THEN /\ db' = db
             /\ IsCodeValid(db', now', req'.type, req'.target, req'.code)
        ELSE /\ RecordOf(db', req'.type, req'.target) = {}
             /\ db'.verifications =
                  db.verifications \ RecordOf(db, req'.type, req'.target)
             /\ ~IsCodeValid(db', now', req'.type, req'.target, req'.code)
             /\ Observable(VerifyAction(db', jar', now', req'.type, req'.target,
                                        req'.code).resp) = InvalidCodeObservable]_vars

\* C18 witness: alice's code was verified, her record is gone and the same
\* code is now refused
C18_Witness ==
  /\ req.handler = "verify"
  /\ req.type = "reset-password"
  /\ req.target = "alice"
  /\ resp.exit = "ok"
  /\ RecordOf(db, req.type, req.target) = {}
  /\ VerifyAction(db, jar, now, req.type, req.target, req.code).resp.status = 400

\* the state of a pair: absent (never requested, or consumed and deleted),
\* pending (a record that is not expired) or expired
PairState(d, t, pair) ==
  IF RecordOf(d, pair[1], pair[2]) = {} THEN "absent"
  ELSE IF Expired(d, t, pair[1], pair[2]) THEN "expired"
  ELSE "pending"

\* the step answers a request about the pair
About(pair) == req'.type = pair[1] /\ req'.target = pair[2]

\* C19 as claimed: per (type, target) the only transitions are absent to
\* pending (code requested), pending to consumed (record deleted by a
\* successful verification) and pending to expired (time passes); a refused
\* attempt leaves the record as it is; and once a pair is expired no step
\* takes it to a state in which a code validates for it.
C19_Lifecycle ==
  [][\A pair \in Pairs :
       LET a == PairState(db, now, pair)
           b == PairState(db', now', pair)
       IN /\ a # b
             => \/ /\ a = "absent" /\ b = "pending"
                   /\ Handled("prepareVerification") /\ About(pair)
                \/ /\ a = "pending" /\ b = "absent"
                   /\ Handled("verify") /\ About(pair)
                   /\ IsCodeValid(db, now, pair[1], pair[2], req'.code)
                \/ /\ a = "pending" /\ b = "expired"
                   /\ now' > now
          /\ (/\ Handled("verify") /\ About(pair)
              /\ ~IsCodeValid(db, now, pair[1], pair[2], req'.code))
             => RecordOf(db', pair[1], pair[2]) = RecordOf(db, pair[1], pair[2])
          /\ a = "expired"
             => \A code \in SubmittedCodes :
                  ~IsCodeValid(db', now', pair[1], pair[2], code)]_vars

\* C19 amended: per (type, target) the transitions are: a code request takes
\* the pair to pending from any state (absent, pending or expired), with the
\* new record replacing the old one; a successful verification of a
\* non-persistent type takes pending to consumed (record deleted); passing
\* time takes pending to expired.  A refused attempt leaves the record as it
\* is, and without a new code request an expired pair stays expired and no
\* code validates for it.
C19_LifecycleAmended ==
  [][\A pair \in Pairs :
       LET a == PairState(db, now, pair)
           b == PairState(db', now', pair)
           requested == Handled("prepareVerification") /\ About(pair)
       IN /\ requested => b = "pending"
          /\ a # b
             => \/ requested
                \/ /\ a = "pending" /\ b = "absent"
                   /\ Handled("verify") /\ About(pair)
                   /\ IsCodeValid(db, now, pair[1], pair[2], req'.code)
                   /\ pair[1] \notin PersistentTypes
                \/ /\ a = "pending" /\ b = "expired"
                   /\ now' > now
          /\ (/\ Handled("verify") /\ About(pair)
              /\ ~IsCodeValid(db, now, pair[1], pair[2], req'.code))
             => RecordOf(db', pair[1], pair[2]) = RecordOf(db, pair[1], pair[2])
          /\ (a = "expired" /\ ~requested)
             => /\ b = "expired"
                /\ \A code \in SubmittedCodes :
                     ~IsCodeValid(db', now', pair[1], pair[2], code)]_vars

\* C19 witness: at a time when a code issued at the start has expired, a newly
\* requested code for alice is pending
C19_Witness ==
  /\ req.handler = "prepareVerification"
  /\ req.type = "reset-password"
  /\ req.target = "alice"
  /\ now >= VERIFICATION_PERIOD
  /\ PairState(db, now, <<"reset-password", "alice">>) = "pending"
  /\ \E v \in RecordOf(db, "reset-password", "alice") :
       v.expiresAt = now + VERIFICATION_PERIOD

\* C20: the theme-switch action sets the theme cookie only to a submitted
\* value in {system, light, dark}; a submission whose theme is missing or
\* outside that set sets no cookie and leaves the stored preference as it
\* was; so the stored preference is always one of the three values or unset.
C20_ThemeCookieDomain ==
  [][/\ jar'.theme \in Themes \cup {Undefined}
     /\ Handled("themeSwitch")
        => IF req'.theme \in Themes
           THEN /\ resp'.setCookie.theme = {SetTheme(req'.theme)}
                /\ jar'.theme = SetTheme(req'.theme)
           ELSE /\ resp'.setCookie = NoSetCookie
                /\ jar'.theme = jar.theme
                /\ db' = db]_vars

\* C20 witness: with dark stored, a theme outside the set was submitted and
\* dark is still stored
C20_Witness ==
  /\ req.handler = "themeSwitch"
  /\ req.theme = "blue"
  /\ resp.status = 400
  /\ resp.setCookie.theme = {}
  /\ jar.theme = "dark"

\* the step answers a request to one of the flow handlers
FlowRequest == \E h \in FlowHandlers : Handled(h)

ExternalCallThrows ==
  \/ /\ req'.handler = "photo"
     /\ RequireUserId(db, jar, now) # 0
     /\ ParseFormDataThrows(req'.photoFile) \/ req'.failAt # 0
  \/ /\ req'.handler \in {"onboarding", "providerOnboarding"}
     /\ SignupThrows(db, jar.verify.onboardingEmail, FormOf(req').username)
  \/ /\ req'.handler = "resetPassword"
     /\ ResetUserPasswordThrows(db, jar.verify.resetPasswordUsername)

CreatePasswordHandlers ==
  {"createPasswordLoader", "createPassword",
   "legacyCreatePasswordLoader", "legacyCreatePassword"}

ChangePasswordHandlers == {"changePasswordLoader", "changePassword"}

C22_PasswordGuards ==
  [][LET userId == RequireUserId(db, jar, now)
         before == PasswordOf(db, userId)
         after == PasswordOf(db', userId)
     IN /\ \A u \in db'.users : Cardinality(PasswordOf(db', u.id)) <= 1
        /\ (\E h \in CreatePasswordHandlers : Handled(h)) /\ userId # 0 =>
             /\ before # {} => /\ resp'.status = 302
                               /\ resp'.location = "/settings/profile/password"
                               /\ db' = db
             /\ db' # db => /\ before = {}
                            /\ Cardinality(after) = 1
                            /\ db' = [db EXCEPT !.passwords = db.passwords \cup after]
        /\ (\E h \in ChangePasswordHandlers : Handled(h)) /\ userId # 0 =>
             /\ before = {} => /\ resp'.status = 302
                               /\ resp'.location = "/settings/profile/password/create"
                               /\ db' = db
             /\ db' # db => /\ Cardinality(before) = 1
                            /\ Cardinality(after) = 1
                            /\ db' = [db EXCEPT !.passwords =
                                       (db.passwords \ before) \cup after]]_vars

C22_Witness ==
  /\ req.handler = "createPassword"
  /\ req.password = "pw1" /\ req.confirmPassword = "pw1"
  /\ resp.location = "/settings/profile/password"
  /\ Cardinality(PasswordOf(db, RequireUserId(db, jar, now))) = 1

\* C23: two create-password requests of one password-less user can both be past
\* requireNoPassword before either writes; the write of the second is rejected
\* by the database, so the user keeps one password record, and that request
\* ends in an uncaught error, not in the redirect to /settings/profile
C23_CreatePasswordRace ==
  [][/\ \A u \in db'.users : Cardinality(PasswordOf(db', u.id)) <= 1
     /\ req'.handler = "createPasswordWrite"
        /\ PasswordOf(db, req'.create.userId) # {} =>
          /\ db' = db
          /\ resp'.exit = "thrown"
          /\ resp'.status # 302
          /\ resp'.location # "/settings/profile"]_vars

\* both requests passed the guard, the first created the record, the second was
\* rejected
C23_Witness ==
  /\ req.handler = "createPasswordWrite"
  /\ resp.exit = "thrown"
  /\ pending = {}
  /\ Cardinality(PasswordOf(db, req.create.userId)) = 1

\* a request to one of the two onboarding actions got past the guard
SignupSubmission ==
  /\ Handled("onboarding") \/ Handled("providerOnboarding")
  /\ resp'.exit # "guard"

\* the submitted username belongs to a stored user
TakenUsername == \E u \in db.users : u.username = FormOf(req').username

\* no required field of the submitted form is absent
NoFieldMissing ==
  /\ Coerce(FormOf(req').username) # Undefined
  /\ FormOf(req').agreeToTermsOfServiceAndPrivacyPolicy # Undefined
  /\ req'.handler = "onboarding" =>
       /\ Coerce(req'.form.password) # Undefined
       /\ Coerce(req'.form.confirmPassword) # Undefined

\* the submitted form passes its schema
PassesSchema ==
  /\ NoFieldMissing
  /\ req'.handler = "onboarding" => req'.form.password = req'.form.confirmPassword

\* signup (signupWithConnection) is called only for a form that passes the schema
\* and whose username the pre-check did not find; a taken username changes
\* nothing in the database and sets or clears no cookie
SignupOnlyAfterValidation ==
  /\ resp'.exit \in {"ok", "thrown"} => PassesSchema /\ ~TakenUsername
  /\ db' # db => resp'.exit = "ok"
  /\ TakenUsername => /\ resp'.status = 400
                      /\ db' = db
                      /\ resp'.setCookie = NoSetCookie
                      /\ jar' = jar

\* C24 as claimed: in the onboarding and provider-onboarding actions the signup
\* is called only after schema and username pre-check passed, and every
\* submission of a taken username is answered 400 with 'A user already exists
\* with this username' on the username field, without user, session or cookie
C24_MutationAfterValidation ==
  [][SignupSubmission =>
       /\ SignupOnlyAfterValidation
       /\ TakenUsername =>
            <<"username", UsernameTaken>> \in resp'.body.fieldErrors]_vars

\* C24 amended: the message on the username field is there when no required
\* field of the form is missing; with a missing field the answer is still 400
\* without user, session or cookie, and reports the missing field instead
C24_MutationAfterValidationAmended ==
  [][SignupSubmission =>
       /\ SignupOnlyAfterValidation
       /\ TakenUsername /\ NoFieldMissing =>
            <<"username", UsernameTaken>> \in resp'.body.fieldErrors
       /\ TakenUsername /\ ~NoFieldMissing =>
            /\ <<"username", UsernameTaken>> \notin resp'.body.fieldErrors
            /\ \E e \in resp'.body.fieldErrors : e[2] = "Required"]_vars

\* a complete form with the username of a stored user was answered 400
C24_Witness ==
  /\ req.handler = "onboarding"
  /\ req.form.username = "alice"
  /\ req.form.agreeToTermsOfServiceAndPrivacyPolicy = "on"
  /\ req.form.password = "pw1" /\ req.form.confirmPassword = "pw1"
  /\ resp.handler = "onboarding"
  /\ resp.status = 400
  /\ resp.body.fieldErrors = {<<"username", UsernameTaken>>}
  /\ \E u \in db.users : u.username = "alice"

\* the password records of the users called username
PasswordsOfUsername(d, username) ==
  {p \in d.passwords : \E u \in d.users : u.id = p.userId /\ u.username = username}

\* C25: a reset-password submission that gets past the guard and the schema
\* sets the hash of the user named by the cookie's resetPasswordUsername to that
\* of the submitted password, leaves every other password record, the users
\* and the sessions as they were, sets no auth cookie and redirects to /login;
\* a submission that fails the schema changes nothing in the database
C25_ResetPasswordFrame ==
  [][Handled("resetPassword") /\ resp'.exit # "guard" =>
       LET username == jar.verify.resetPasswordUsername
           mine == PasswordsOfUsername(db, username)
       IN IF PasswordAndConfirmPasswordSchema(req'.password, req'.confirmPassword) # {}
          THEN db' = db /\ resp'.status = 400
          ELSE /\ resp'.status = 302
               /\ resp'.location = "/login"
               /\ resp'.setCookie.auth = {}
               /\ jar'.auth = jar.auth
               /\ db'.sessions = db.sessions
               /\ db'.users = db.users
               /\ db'.passwords \ PasswordsOfUsername(db', username) =
                    db.passwords \ mine
               /\ PasswordsOfUsername(db', username) =
                    {[p EXCEPT !.hash = Hash(req'.password)] : p \in mine}
               /\ mine # {}]_vars

\* alice's password was reset to pw2 while carol, who signed up with pw1, keeps
\* hers
C25_Witness ==
  /\ req.handler = "resetPassword"
  /\ req.password = "pw2"
  /\ resp.exit = "ok"
  /\ PasswordsOfUsername(db, "alice") # {}
  /\ \A p \in PasswordsOfUsername(db, "alice") : p.hash = Hash("pw2")
  /\ PasswordsOfUsername(db, "carol") # {}
  /\ \A p \in PasswordsOfUsername(db, "carol") : p.hash = Hash("pw1")

OnboardingPages ==
  {"onboardingLoader", "onboarding", "providerOnboardingLoader", "providerOnboarding"}

ResetPasswordPages == {"resetPasswordLoader", "resetPassword"}

\* C26: the cookie committed by a completed onboarding or reset-password
\* verification holds the one key of its flow and nothing of what the browser
\* held before; with a cookie that holds resetPasswordUsername the loaders and
\* actions of /onboarding and /onboarding/:provider redirect at their guard,
\* with a cookie that holds onboardingEmail those of /reset-password do, and
\* the browser never holds the keys of both flows
C26_CrossFlowIsolation ==
  [][/\ ~(/\ jar'.verify.onboardingEmail # Undefined
          /\ jar'.verify.resetPasswordUsername # Undefined)
     /\ Handled("verify") /\ resp'.exit = "ok" /\ req'.type = "onboarding" =>
          /\ resp'.setCookie.verify =
               {[EmptyVerifySession EXCEPT !.onboardingEmail = req'.target]}
          /\ jar'.verify = [EmptyVerifySession EXCEPT !.onboardingEmail = req'.target]
     /\ Handled("verify") /\ resp'.exit = "ok" /\ req'.type = "reset-password" =>
          /\ jar'.verify.resetPasswordUsername # Undefined
          /\ resp'.setCookie.verify = {jar'.verify}
          /\ jar'.verify = [EmptyVerifySession EXCEPT !.resetPasswordUsername =
                                                     jar'.verify.resetPasswordUsername]
     /\ (\E h \in OnboardingPages : Handled(h))
        /\ jar.verify.resetPasswordUsername # Undefined =>
          /\ resp'.exit = "guard" /\ resp'.status = 302
          /\ db' = db /\ jar' = jar
     /\ (\E h \in ResetPasswordPages : Handled(h))
        /\ jar.verify.onboardingEmail # Undefined =>
          /\ resp'.exit = "guard" /\ resp'.status = 302
          /\ db' = db /\ jar' = jar]_vars

\* the anonymous holder of a reset-password cookie asked for /onboarding and
\* was sent to /signup
C26_Witness ==
  /\ req.handler = "onboardingLoader"
  /\ jar.verify.resetPasswordUsername = "alice"
  /\ jar.auth.sessionId = NoSessionId
  /\ resp.exit = "guard"
  /\ resp.location = "/signup"

\* no stored user has the submitted username and a password that verifies
LoginRefused ==
  ~\E u \in db.users : /\ u.username = req'.loginForm.username
                        /\ VerifyUserPassword(db, u.id, req'.loginForm.password)

\* C27: an anonymous login submission with username and password present that
\* login() refuses, because the username is unknown or because the password is
\* wrong, gets one and the same answer: 400, the single form error 'Invalid
\* username or password', no field error, no password in the echo, no session
\* and no cookie
C27_LoginFailureUniform ==
  [][(/\ Handled("login")
      /\ RequireAnonymous(db, jar, now)
      /\ Coerce(req'.loginForm.username) # Undefined
      /\ Coerce(req'.loginForm.password) # Undefined
      /\ LoginRefused)
     => /\ Observable(resp') =
             [status |-> 400, location |-> Undefined, setCookie |-> NoSetCookie,
              shape |-> "result", fieldErrors |-> {},
              formErrors |-> {"Invalid username or password"}]
        /\ \A e \in resp'.body.echo : e[1] # "password"
        /\ db' = db
        /\ jar' = jar]_vars

\* a login with a username that no user has was refused
C27_Witness ==
  /\ req.handler = "login"
  /\ req.loginForm.username = "carol"
  /\ req.loginForm.password = "pw1"
  /\ \A u \in db.users : u.username # "carol"
  /\ resp.handler = "login"
  /\ resp.status = 400
  /\ resp.body.formErrors = {"Invalid username or password"}

RedirectToHandlers == {"onboarding", "providerOnboarding", "themeSwitch"}

\* the redirectTo of the submitted form
RedirectToOf(q) == IF q.handler = "themeSwitch" THEN q.redirectTo ELSE FormOf(q).redirectTo

\* C28: when the onboarding, provider-onboarding or theme-switch action ends in
\* its redirect, the Location is a path of the site: the submitted redirectTo
\* when that is one, the default "/" when it is absent or leads elsewhere
C28_RedirectsSanitized ==
  [][(\E h \in RedirectToHandlers : Handled(h))
     /\ resp'.exit = "ok" /\ resp'.status = 302
     => /\ resp'.location \in SameSitePaths
        /\ RedirectToOf(req') \in SameSitePaths => resp'.location = RedirectToOf(req')
        /\ RedirectToOf(req') \notin SameSitePaths => resp'.location = "/"]_vars

\* the mode the control shows: the theme in flight, else the stored one, else
\* system
CurrentMode ==
  IF pending # {} THEN (CHOOSE f \in pending : TRUE).theme
  ELSE IF jar.theme # Undefined THEN jar.theme
  ELSE "system"

\* the jar after a toggle from jar j was submitted and answered
Toggled(j) ==
  ApplySetCookie(j, ThemeSwitchAction(db, NextMode(ThemeMode({}, UserPreference(j))),
                                      Undefined).resp.setCookie)

\* C29: a click on the control submits light when the current mode is system,
\* dark when it is light and system when it is dark, the current mode being
\* the theme in flight, else the stored preference, else system; the answered
\* toggle stores the submitted mode; and three answered toggles in a row lead
\* back to the stored mode they started from through all three modes
C29_ThemeToggleCycle ==
  [][/\ Handled("themeToggle") =>
          /\ CurrentMode = "system" => req'.theme = "light"
          /\ CurrentMode = "light" => req'.theme = "dark"
          /\ CurrentMode = "dark" => req'.theme = "system"
          /\ CurrentMode \in Themes
          /\ pending' = {ThemeFetcher(req'.theme)}
     /\ Handled("themeSwitch") /\ pending # {} /\ pending' = {} =>
          /\ resp'.status = 200
          /\ UserPreference(jar') = CurrentMode
     /\ pending' = {} =>
          LET start == ThemeMode({}, UserPreference(jar'))
              one == ThemeMode({}, UserPreference(Toggled(jar')))
              two == ThemeMode({}, UserPreference(Toggled(Toggled(jar'))))
              three == ThemeMode({}, UserPreference(Toggled(Toggled(Toggled(jar')))))
          IN /\ three = start
             /\ {start, one, two} = Themes]_vars

\* the third toggle in a row was answered: dark is stored and system is next
C29_Witness ==
  /\ req.handler = "themeSwitch"
  /\ "fetcher" \in DOMAIN req
  /\ pending = {}
  /\ resp.status = 200
  /\ jar.theme = "dark"
  /\ NextMode(ThemeMode(pending, UserPreference(jar))) = "system"

\* the update given last
LastUpdate(state) == state.updates[Len(state.updates)]

\* the position of the last update that carried an intent, 0 without one
LastIntentUpdate(updates) ==
  Max({0} \cup {i \in 1..Len(updates) : updates[i].intent # Null})

\* the positions of the plain results with a verdict since that update
Verdicts(updates) ==
  {i \in (LastIntentUpdate(updates) + 1)..Len(updates) : updates[i].error # Undefined}

\* C30: the status starts at null and is null, 'success' or 'error'; an update
\* with an intent sets it to null, one without intent and with undefined error
\* leaves it, one without intent sets 'success' for a null error and 'error'
\* for any other; so it shows the verdict of the last plain result that had
\* one since the last update with an intent, and null when there is none
C30_FormStatus ==
  [][/\ formState'.status \in {Null, "success", "error"}
     /\ formState.updates = <<>> => formState.status = Null
     /\ formState'.updates # formState.updates =>
          LET result == LastUpdate(formState')
          IN /\ result.intent # Null => formState'.status = Null
             /\ result.intent = Null /\ result.error = Undefined =>
                  formState'.status = formState.status
             /\ result.intent = Null /\ result.error = Null =>
                  formState'.status = "success"
             /\ result.intent = Null /\ result.error \notin {Undefined, Null} =>
                  formState'.status = "error"
     /\ formState'.status =
          IF Verdicts(formState'.updates) = {} THEN Null
          ELSE IF formState'.updates[Max(Verdicts(formState'.updates))].error = Null
               THEN "success" ELSE "error"]_vars

\* a plain result with errors, then a validate intent, then a plain result
\* without error: the status is 'success'
C30_Witness ==
  /\ Len(formState.updates) = 3
  /\ formState.updates[1] = [intent |-> Null, error |-> "errors"]
  /\ formState.updates[2].intent = "validate"
  /\ formState.updates[3] = [intent |-> Null, error |-> Null]
  /\ formState.status = "success"

====
